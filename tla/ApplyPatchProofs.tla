-------------------------- MODULE ApplyPatchProofs --------------------------
(***************************************************************************)
(* ApplyPatch implements AtomicUpdate for every script, every set of left  *)
(* over copies the assumptions allow and any number of power losses and    *)
(* failing calls, as long as a partition has a single patch.               *)
(***************************************************************************)
EXTENDS ApplyPatch, WellFoundedInduction, TLAPS

\* The parts of a job are what apply_patch takes.
LEMMA JobTypes ==
    ASSUME NEW j \in 1..NumJobs
    PROVE  /\ Jobs[j].source \in Files
           /\ Jobs[j].target \in Files
           /\ Jobs[j].new \in Contents
           /\ Jobs[j].patches \in Seq(Contents)
           /\ Sources(j) \subseteq Contents
  <1>1. Jobs[j] \in JobRecords
    BY JobsAssumption DEF NumJobs
  <1>2. /\ Jobs[j].source \in Files
        /\ Jobs[j].target \in Files
        /\ Jobs[j].new \in Contents
        /\ Jobs[j].patches \in Seq(Contents)
    BY <1>1 DEF JobRecords
  <1>3. \A i \in 1..Len(Jobs[j].patches) : Jobs[j].patches[i] \in Contents
    BY <1>2
  <1> QED
    BY <1>2, <1>3 DEF Sources

\* A file that is missing or partly written matches nothing.
LEMMA NoMatch ==
    ASSUME NEW j \in 1..NumJobs
    PROVE  /\ Absent \notin Sources(j) /\ Torn \notin Sources(j)
           /\ Jobs[j].new # Absent /\ Jobs[j].new # Torn
  BY JobTypes, FilesAssumption

\* The number of jobs is a number.
LEMMA JobCount == NumJobs \in Nat /\ NumJobs > 0
  BY JobsAssumption, ScriptAssumption DEF NumJobs

\* A matching patch is one of the list.
LEMMA MatchIsSource ==
    ASSUME NEW j \in 1..NumJobs, NEW c,
           FindMatchingPatch(c, Jobs[j].patches) > 0
    PROVE  c \in Sources(j)
  BY DEF FindMatchingPatch, Sources

\* A list with an element has a first one.
LEMMA FirstExists ==
    ASSUME NEW list \in Seq(Contents), NEW c,
           \E i \in 1..Len(list) : list[i] = c
    PROVE  \E i \in 1..Len(list) : list[i] = c /\ \A k \in 1..(i - 1) : list[k] # c
  <1> DEFINE T == {i \in 1..Len(list) : list[i] = c}
             R == OpToRel(<, Nat)
  <1>1. Len(list) \in Nat
    OBVIOUS
  <1>2. T # {} /\ T \subseteq Nat
    BY <1>1
  <1>3. \E x \in T : \A y \in T : ~(<<y, x>> \in R)
    <2>1. IsWellFoundedOn(R, Nat)
      BY NatLessThanWellFounded
    <2> HIDE DEF T, R
    <2> QED
      BY <1>2, <2>1, WFMin
  <1>4. PICK x \in T : \A y \in T : ~(<<y, x>> \in R)
    BY <1>3
  <1>5. ASSUME NEW k \in 1..(x - 1), list[k] = c
        PROVE  FALSE
    <2>0. x \in 1..Len(list)
      OBVIOUS
    <2>1. k \in T /\ k < x /\ k \in Nat /\ x \in Nat
      BY <1>1, <2>0, <1>5
    <2>2. <<k, x>> \in R
      BY <2>1 DEF OpToRel
    <2> QED
      BY <2>1, <2>2, <1>4
  <1> QED
    BY <1>4, <1>5

\* The copy is used only when it is a source and not the only one.
LEMMA CopyIsSource ==
    ASSUME NEW j \in 1..NumJobs, NEW c,
           FindMatchingPatch(c, Jobs[j].patches) > 1
    PROVE  c \in Sources(j) /\ Len(Jobs[j].patches) > 1
  <1> DEFINE list == Jobs[j].patches
             First(i) == list[i] = c /\ \A k \in 1..(i - 1) : list[k] # c
  <1>1. list \in Seq(Contents) /\ Len(list) \in Nat
    BY JobTypes
  <1>2. \E i \in 1..Len(list) : list[i] = c
    BY DEF FindMatchingPatch
  <1>3. \E i \in 1..Len(list) : First(i)
    BY <1>1, <1>2, FirstExists
  <1>4. FindMatchingPatch(c, list) = CHOOSE i \in 1..Len(list) : First(i)
    BY <1>2 DEF FindMatchingPatch
  <1>5. FindMatchingPatch(c, list) \in 1..Len(list)
    BY <1>3, <1>4
  <1> QED
    BY <1>1, <1>2, <1>5 DEF Sources

-----------------------------------------------------------------------------
(* The type invariant                                                      *)

\* Making room deletes none of the files the update depends on.
LEMMA RoomKeeps ==
    ASSUME NEW names \in SUBSET Expendable, Unlinked(names)
    PROVE  fs' = fs /\ out' = out /\ saved' = saved /\ junk' \subseteq junk
  BY DEF Unlinked, Expendable

LEMMA InitType == Init => TypeOK
  <1> SUFFICES ASSUME Init PROVE TypeOK
    OBVIOUS
  <1>1. fs \in [Files -> Held]
    BY DEF Init
  <1>2. saved \in Held
    BY FilesAssumption DEF Init, Held
  <1>3. made_copy \in BOOLEAN
    BY DEF Init
  <1>4. out \in [Files -> {Absent, Torn} \cup Contents]
    BY DEF Init
  <1> QED
    BY <1>1, <1>2, <1>3, <1>4, JobCount, FilesAssumption, BoundsAssumption
    DEF Init, TypeOK, Held, Locations

LEMMA StepType == TypeOK /\ [Next]_vars => TypeOK'
  <1> SUFFICES ASSUME TypeOK, [Next]_vars PROVE TypeOK'
    OBVIOUS
  <1> USE JobCount, FilesAssumption, BoundsAssumption
  <1>f. Absent \in Held /\ Torn \in Held
    BY DEF Held
  <1>j. Source \in Files /\ Target \in Files /\ Jobs[job].new \in Held
    BY JobTypes DEF TypeOK, Source, Target, Held
  <1>g. ASSUME NEW kind, Fault(kind)
        PROVE  /\ pc' = "failed" /\ why' = "fault" /\ faults' \in 0..MaxFaults
               /\ UNCHANGED <<job, locals, crashes, retries>>
    BY <1>g DEF Fault, GiveUp, TypeOK
  <1>m. ASSUME NEW then \in Locations, MakeFreeSpaceOnCache(then)
        PROVE  TypeOK'
    <2>1. fs' = fs /\ out' = out /\ saved' = saved /\ junk' \subseteq junk
      BY <1>m, RoomKeeps DEF MakeFreeSpaceOnCache
    <2>2. CASE Fault("space")
      BY <2>1, <2>2, <1>g DEF TypeOK, locals, Locations
    <2>3. CASE Goto(then) /\ UNCHANGED locals
      BY <2>1, <2>3, <1>m DEF TypeOK, Goto, locals, boundVars
    <2> QED
      BY <1>m, <2>2, <2>3 DEF MakeFreeSpaceOnCache
  <1>1. CASE Start
    <2>1. made_copy' \in BOOLEAN
      BY <1>1 DEF Start
    <2> QED
      BY <1>1, <2>1, <1>f DEF Start, TypeOK, flash, boundVars, Locations
  <1>2. CASE Retry
    BY <1>2 DEF Retry, TypeOK, flash, locals, Locations
  <1>3. CASE Crash
    BY <1>3 DEF Crash, TypeOK, flash, locals, Locations
  <1>4. CASE Check
    BY <1>4 DEF Check, GiveUp, TypeOK, flash, locals, boundVars, Locations
  <1>5. CASE CacheSizeCheck
    BY <1>5, <1>m DEF CacheSizeCheck, Locations
  <1>6. CASE Load
    <2>1. LoadSource \in Held
      BY <1>j, <1>f DEF LoadSource, LoadFileContents, TypeOK
    <2>2. made_copy' \in BOOLEAN
      <3>1. made_copy' = FALSE \/ made_copy' = made_copy
        BY <1>6 DEF Load, locals
      <3> QED
        BY <3>1 DEF TypeOK
    <2> QED
      BY <1>6, <2>1, <2>2 DEF Load, NextJob, Goto, TypeOK, flash, locals, boundVars, Locations
  <1>7. CASE MakeRoom
    <2>1. CASE MakeFreeSpaceOnCache("save")
      BY <2>1, <1>m DEF Locations
    <2>2. CASE Goto("output") /\ UNCHANGED <<flash, locals>>
      BY <2>2 DEF Goto, TypeOK, flash, locals, boundVars, Locations
    <2> QED
      BY <1>7, <2>1, <2>2 DEF MakeRoom
  <1>8. CASE SaveBegins
    <2>1. CASE Fault("save")
      BY <1>8, <2>1, <1>g, <1>f DEF SaveBegins, TypeOK, locals, Locations
    <2>2. CASE saved' = Torn /\ Goto("copying") /\ UNCHANGED locals
      BY <1>8, <2>2, <1>f DEF SaveBegins, Goto, TypeOK, locals, boundVars, Locations
    <2> QED
      BY <1>8, <2>1, <2>2 DEF SaveBegins
  <1>9. CASE SaveEnds
    <2>1. saved' \in Held
      BY <1>9, <1>f DEF SaveEnds, TypeOK
    <2>2. CASE Fault("save")
      BY <1>9, <2>1, <2>2, <1>g DEF SaveEnds, TypeOK, locals, Locations
    <2>3. CASE GiveUp("copy")
      BY <1>9, <2>1, <2>3 DEF SaveEnds, GiveUp, TypeOK, locals, Locations
    <2>4. CASE /\ made_copy' = TRUE
               /\ Goto(IF Target \in Mtd THEN "output" ELSE "unlink")
               /\ UNCHANGED <<loaded, use>>
      BY <1>9, <2>1, <2>4 DEF SaveEnds, Goto, TypeOK, boundVars, Locations
    <2> QED
      BY <1>9, <2>2, <2>3, <2>4 DEF SaveEnds
  <1>10. CASE UnlinkSource
    BY <1>10, <1>f, <1>j DEF UnlinkSource, Goto, TypeOK, locals, boundVars, Locations
  <1>11. CASE OpenOutput
    <2>1. out' \in [Files -> {Absent, Torn} \cup Contents]
      BY <1>11, <1>j DEF OpenOutput, TypeOK
    <2>2. CASE Fault("patch")
      BY <1>11, <2>1, <2>2, <1>g DEF OpenOutput, TypeOK, locals, Locations
    <2>3. CASE Goto("patching") /\ UNCHANGED locals
      BY <1>11, <2>1, <2>3 DEF OpenOutput, Goto, TypeOK, locals, boundVars, Locations
    <2> QED
      BY <1>11, <2>2, <2>3 DEF OpenOutput
  <1>12. CASE Patch
    <2>1. out' \in [Files -> {Absent, Torn} \cup Contents]
      BY <1>12, <1>j DEF Patch, TypeOK, Held
    <2>2. CASE Fault("patch")
      BY <1>12, <2>1, <2>2, <1>g DEF Patch, TypeOK, locals, Locations
    <2>3. CASE Goto("install") /\ UNCHANGED locals
      BY <1>12, <2>1, <2>3 DEF Patch, Goto, TypeOK, locals, boundVars, Locations
    <2> QED
      BY <1>12, <2>2, <2>3 DEF Patch
  <1>13. CASE Rename
    <2>1. fs' \in [Files -> Held] /\ out' \in [Files -> {Absent, Torn} \cup Contents]
      BY <1>13, <1>j DEF Rename, TypeOK, Held
    <2>2. CASE Fault("install")
      BY <1>13, <2>1, <2>2, <1>g DEF Rename, TypeOK, locals, Locations
    <2>3. CASE Goto("clean") /\ UNCHANGED locals
      BY <1>13, <2>1, <2>3 DEF Rename, Goto, TypeOK, locals, boundVars, Locations
    <2> QED
      BY <1>13, <2>2, <2>3 DEF Rename
  <1>14. CASE FlashBegins
    <2>1. fs' \in [Files -> Held]
      BY <1>14, <1>j, <1>f DEF FlashBegins, TypeOK
    <2>2. CASE Fault("install")
      BY <1>14, <2>1, <2>2, <1>g DEF FlashBegins, TypeOK, locals, Locations
    <2>3. CASE Goto("flashing") /\ UNCHANGED locals
      BY <1>14, <2>1, <2>3 DEF FlashBegins, Goto, TypeOK, locals, boundVars, Locations
    <2> QED
      BY <1>14, <2>2, <2>3 DEF FlashBegins
  <1>15. CASE FlashEnds
    <2>1. fs' \in [Files -> Held]
      BY <1>15, <1>j DEF FlashEnds, TypeOK
    <2>2. CASE Fault("install")
      BY <1>15, <2>1, <2>2, <1>g DEF FlashEnds, TypeOK, locals, Locations
    <2>3. CASE Goto("clean") /\ UNCHANGED locals
      BY <1>15, <2>1, <2>3 DEF FlashEnds, Goto, TypeOK, locals, boundVars, Locations
    <2> QED
      BY <1>15, <2>2, <2>3 DEF FlashEnds
  <1>16. CASE Clean
    <2>1. saved' \in Held
      BY <1>16, <1>f DEF Clean, TypeOK
    <2> QED
      BY <1>16, <2>1 DEF Clean, NextJob, TypeOK, locals, boundVars, Locations
  <1>17. CASE UNCHANGED vars
    BY <1>17 DEF vars, flash, locals, boundVars, TypeOK
  <1> QED
    BY <1>1, <1>2, <1>3, <1>4, <1>5, <1>6, <1>7, <1>8, <1>9, <1>10, <1>11, <1>12,
       <1>13, <1>14, <1>15, <1>16, <1>17 DEF Next, Updater

\* Every reachable state is well typed; in particular the position in the
\* script stays inside it (updater/install.c:730-798).
THEOREM TypeCorrect == Spec => []TypeOK
  BY InitType, StepType, PTL DEF Spec

-----------------------------------------------------------------------------
(* The inductive invariant                                                 *)

LEMMA InitInv == Init => IInv
  <1> SUFFICES ASSUME Init PROVE IInv
    OBVIOUS
  <1>1. CopyOrdered
    <2> SUFFICES ASSUME NEW k \in 1..NumJobs, saved \in Sources(k), NEW i \in 1..(k - 1)
                 PROVE  FALSE
      BY DEF CopyOrdered
    <2>1. k > 1
      BY JobCount
    <2> QED
      BY <2>1, LeftOverAssumption DEF Init, NumJobs
  <1>2. NoNewCopies
    <2> SUFFICES ASSUME NEW j \in 1..NumJobs
                 PROVE  /\ saved # Jobs[j].new
                        /\ Jobs[j].source # Jobs[j].target => fs[Jobs[j].source] # Jobs[j].new
      BY DEF NoNewCopies
    <2>1. fs[Jobs[j].source] \in Found[Jobs[j].source]
      BY JobTypes DEF Init
    <2> QED
      BY <2>1, LeftOverAssumption DEF Init, NumJobs
  <1> QED
    BY <1>1, <1>2, InitType DEF Init, IInv, Checked, InOrder, Established, Patching

\* While a file is being patched no other file depends on the copy.
LEMMA OneHollow ==
    ASSUME IInv, pc \in Patching, NEW k \in 1..NumJobs, k # job
    PROVE  ~Hollow(k)
  <1> SUFFICES ASSUME Hollow(k) PROVE FALSE
    OBVIOUS
  <1>1. job \in 1..NumJobs /\ k \in 1..NumJobs /\ NumJobs \in Nat
    BY JobCount DEF IInv, TypeOK
  <1>2. CASE k < job
    BY <1>1, <1>2 DEF IInv, InOrder, Hollow
  <1>3. CASE k > job
    <2>1. saved \in Sources(k)
      BY DEF IInv, Checked, Lost
    <2>2. IsNew(job)
      BY <1>1, <1>3, <2>1 DEF IInv, CopyOrdered
    <2> QED
      BY <2>2 DEF IInv, Established
  <1> QED
    BY <1>1, <1>2, <1>3

\* Steps that change neither the files nor the copy keep what is said of them.
LEMMA QuietStep ==
    ASSUME IInv, fs' = fs, saved' = saved
    PROVE  /\ CopyOrdered' /\ NoNewCopies'
           /\ \A j \in 1..NumJobs : /\ IsNew(j)' <=> IsNew(j)
                                    /\ Hollow(j)' <=> Hollow(j)
                                    /\ Lost(j)' <=> Lost(j)
  BY DEF IInv, CopyOrdered, NoNewCopies, IsNew, Hollow, Lost

\* Writing the files of one job leaves the others alone.
LEMMA OtherJobs ==
    ASSUME IInv, NEW f \in {Source, Target}, NEW c, fs' = [fs EXCEPT ![f] = c],
           NEW k \in 1..NumJobs, k # job
    PROVE  /\ fs'[Jobs[k].source] = fs[Jobs[k].source]
           /\ fs'[Jobs[k].target] = fs[Jobs[k].target]
           /\ IsNew(k)' <=> IsNew(k)
           /\ Hollow(k)' <=> Hollow(k)
  <1>1. job \in 1..NumJobs
    BY DEF IInv, TypeOK
  <1>2. f # Jobs[k].source /\ f # Jobs[k].target
    BY <1>1, ScriptAssumption DEF Source, Target, NumJobs
  <1>3. Jobs[k].source \in Files /\ Jobs[k].target \in Files /\ fs \in [Files -> Held]
    BY JobTypes DEF IInv, TypeOK
  <1>4. /\ fs'[Jobs[k].source] = fs[Jobs[k].source]
        /\ fs'[Jobs[k].target] = fs[Jobs[k].target]
    BY <1>2, <1>3
  <1> QED
    BY <1>4 DEF IsNew, Hollow

\* Every action preserves the invariant.
LEMMA StepInv == SinglePatchPartitions /\ IInv /\ [Next]_vars => IInv'
  <1> SUFFICES ASSUME SinglePatchPartitions, IInv, [Next]_vars PROVE IInv'
    OBVIOUS
  <1> USE JobCount
  <1>t. TypeOK /\ TypeOK'
    BY StepType DEF IInv
  <1>j. job \in 1..NumJobs
    BY <1>t DEF TypeOK
  \* A start that ends, or has not begun, promises nothing but the two
  \* invariants of the flash.
  <1>o. ASSUME pc' \in {"off", "failed"}, CopyOrdered', NoNewCopies'
        PROVE  IInv'
    BY <1>o, <1>t DEF IInv, Checked, InOrder, Established, Patching
  <1>g. ASSUME NEW kind, Fault(kind) PROVE pc' = "failed"
    BY <1>g DEF Fault, GiveUp
  <1>1. CASE Start
    <2>1. fs' = fs /\ saved' = saved /\ pc' = "check" /\ job' = 1
      BY <1>1 DEF Start, flash
    <2> QED
      BY <2>1, <1>t, QuietStep DEF IInv, Checked, InOrder, Established, Patching
  <1>2. CASE Retry
    BY <1>2, <1>o, QuietStep DEF Retry, flash
  <1>3. CASE Crash
    BY <1>3, <1>o, QuietStep DEF Crash, flash
  <1>4. CASE Check
    <2>1. fs' = fs /\ saved' = saved /\ pc = "check"
      BY <1>4 DEF Check, flash
    <2>2. CASE ApplypatchCheck(job)
      <3>1. ~Lost(job)
        <4>1. saved # Jobs[job].new
          BY <1>j DEF IInv, NoNewCopies
        <4>2. CASE saved \in Listed(job)
          BY <4>1, <4>2 DEF Listed, Lost
        <4>3. CASE LoadFileContents(Jobs[job].source, job) \in Listed(job)
          <5>1. fs[Jobs[job].source] \in Listed(job)
            BY <4>3, <1>j, NoMatch DEF LoadFileContents, Listed
          <5> QED
            BY <5>1, <1>j DEF Listed, Lost, Hollow, IsNew, IInv, NoNewCopies
        <4> QED
          BY <2>2, <4>2, <4>3 DEF ApplypatchCheck
      <3>2. \A i \in 1..job : ~Lost(i)
        BY <2>1, <3>1, <1>j DEF IInv, Checked
      <3>3. CASE job < NumJobs
        <4>1. job' = job + 1 /\ pc' = "check"
          BY <1>4, <2>1, <2>2, <3>3 DEF Check
        <4> QED
          BY <4>1, <2>1, <3>2, <1>j, <1>t, QuietStep
          DEF IInv, Checked, InOrder, Established, Patching
      <3>4. CASE ~(job < NumJobs)
        <4>1. job' = 1 /\ pc' = "space" /\ job = NumJobs
          BY <1>4, <2>1, <2>2, <3>4, <1>j DEF Check
        <4> QED
          BY <4>1, <2>1, <3>2, <1>j, <1>t, QuietStep
          DEF IInv, Checked, InOrder, Established, Patching
      <3> QED
        BY <3>3, <3>4
    <2>3. CASE ~ApplypatchCheck(job)
      BY <1>4, <2>1, <2>3, <1>o, QuietStep DEF Check, GiveUp
    <2> QED
      BY <2>2, <2>3
  <1>5. CASE CacheSizeCheck
    <2>1. fs' = fs /\ saved' = saved /\ pc = "space"
      BY <1>5, RoomKeeps DEF CacheSizeCheck, MakeFreeSpaceOnCache
    <2>2. CASE Fault("space")
      BY <2>1, <2>2, <1>g, <1>o, QuietStep
    <2>3. CASE Goto("load")
      BY <2>1, <2>3, <1>t, QuietStep
      DEF Goto, IInv, Checked, InOrder, Established, Patching
    <2> QED
      BY <1>5, <2>2, <2>3 DEF CacheSizeCheck, MakeFreeSpaceOnCache
  <1>6. CASE Load
    <2>1. fs' = fs /\ saved' = saved /\ pc = "load"
      BY <1>6 DEF Load, flash
    <2>2. CASE LoadFileContents(Target, job) = Jobs[job].new
      <3>1. IsNew(job)
        BY <2>2, <1>j, NoMatch DEF LoadFileContents, IsNew, Target
      <3>2. \A i \in 1..job : IsNew(i)
        BY <2>1, <3>1, <1>j DEF IInv, InOrder
      <3>3. CASE job < NumJobs
        <4>1. job' = job + 1 /\ pc' = "load"
          BY <1>6, <2>2, <3>3 DEF Load, NextJob
        <4> QED
          BY <4>1, <2>1, <3>2, <1>j, <1>t, QuietStep
          DEF IInv, Checked, InOrder, Established, Patching
      <3>4. CASE ~(job < NumJobs)
        <4>1. pc' = "done" /\ job = NumJobs
          BY <1>6, <2>2, <3>4, <1>j DEF Load, NextJob
        <4> QED
          BY <4>1, <2>1, <3>2, <1>t, QuietStep
          DEF IInv, Checked, InOrder, Established, Patching
      <3> QED
        BY <3>3, <3>4
    <2>3. CASE LoadFileContents(Target, job) # Jobs[job].new /\ pc' = "failed"
      BY <2>1, <2>3, <1>o, QuietStep
    <2>4. CASE LoadFileContents(Target, job) # Jobs[job].new /\ pc' # "failed"
      <3>1. /\ loaded' = LoadSource /\ pc' = "room" /\ job' = job
            /\ use' = IF FindMatchingPatch(LoadSource, Patches) > 0 THEN "source" ELSE "copy"
            /\ ~(use' = "copy" /\ ~CopyUsable)
        BY <1>6, <2>4 DEF Load, Goto
      <3>2. ~IsNew(job)
        BY <2>4, <1>j DEF LoadFileContents, Listed, IsNew, Target
      <3>3. use' = "source" => loaded' = fs[Source] /\ loaded' \in Sources(job)
        <4> SUFFICES ASSUME use' = "source"
                     PROVE  loaded' = fs[Source] /\ loaded' \in Sources(job)
          OBVIOUS
        <4>1. LoadSource \in Sources(job)
          BY <3>1, <1>j, MatchIsSource DEF Patches
        <4>2. LoadSource = fs[Source]
          BY <4>1, <1>j, NoMatch DEF LoadSource, LoadFileContents
        <4> QED
          BY <4>1, <4>2, <3>1
      <3>4. use' = "copy" => Target \notin Mtd /\ saved \in Sources(job)
        <4> SUFFICES ASSUME use' = "copy" PROVE Target \notin Mtd /\ saved \in Sources(job)
          OBVIOUS
        <4>1. saved \in Sources(job) /\ Len(Jobs[job].patches) > 1
          BY <3>1, <1>j, CopyIsSource DEF CopyUsable, Patches
        <4>2. Len(Jobs[job].patches) \in Nat
          BY <1>j, JobTypes
        <4> QED
          BY <4>1, <4>2, <1>j DEF SinglePatchPartitions, Target
      <3>5. Established'
        BY <3>1, <3>2, <3>3, <3>4, <2>1, <1>j, QuietStep
        DEF Established, Patching, Source, Target
      <3>6. Checked' /\ InOrder'
        BY <3>1, <2>1, <1>j, QuietStep DEF IInv, Checked, InOrder, Patching
      <3> QED
        BY <3>5, <3>6, <2>1, <1>t, QuietStep DEF IInv
    <2> QED
      BY <2>2, <2>3, <2>4
  <1>7. CASE MakeRoom
    <2>1. fs' = fs /\ saved' = saved /\ pc = "room"
      BY <1>7, RoomKeeps DEF MakeRoom, MakeFreeSpaceOnCache, flash
    <2>2. CASE pc' = "failed"
      BY <2>1, <2>2, <1>o, QuietStep
    <2>3. CASE pc' # "failed"
      <3>1. \/ /\ Target \in Mtd \/ use = "source"
               /\ Goto("save") /\ UNCHANGED locals
            \/ /\ ~(Target \in Mtd \/ use = "source")
               /\ Goto("output") /\ UNCHANGED locals
        BY <1>7, <2>3, <1>g DEF MakeRoom, MakeFreeSpaceOnCache
      <3>2. use \in {"source", "copy"}
        BY <1>t DEF TypeOK
      <3>3. Established'
        BY <3>1, <3>2, <2>1, <1>j, QuietStep
        DEF IInv, Established, Patching, Goto, locals, Source, Target
      <3>4. Checked' /\ InOrder'
        BY <3>1, <2>1, <1>j, QuietStep DEF IInv, Checked, InOrder, Patching, Goto
      <3> QED
        BY <3>3, <3>4, <2>1, <1>t, QuietStep DEF IInv
    <2> QED
      BY <2>2, <2>3
  <1>8. CASE SaveBegins
    <2>1. fs' = fs /\ pc = "save" /\ use = "source"
      BY <1>8 DEF SaveBegins, IInv, Established
    <2>2. \A k \in 1..NumJobs : ~Hollow(k)
      <3>1. ~Hollow(job)
        BY <2>1 DEF IInv, Established, Hollow, Source
      <3> QED
        BY <2>1, <3>1, OneHollow DEF Patching
    <2>3. saved' = saved \/ saved' = Torn
      BY <1>8 DEF SaveBegins
    <2>4. CopyOrdered' /\ NoNewCopies' /\ \A k \in 1..NumJobs : ~Lost(k)'
      BY <2>1, <2>2, <2>3, NoMatch
      DEF IInv, CopyOrdered, NoNewCopies, Hollow, Lost, IsNew
    <2>5. CASE Fault("save")
      BY <2>4, <2>5, <1>g, <1>o
    <2>6. CASE Goto("copying") /\ UNCHANGED locals
      BY <2>1, <2>4, <2>6, <1>t
      DEF IInv, Checked, InOrder, Established, Patching, Goto, locals, Source, Target, IsNew
    <2> QED
      BY <1>8, <2>5, <2>6 DEF SaveBegins
  <1>9. CASE SaveEnds
    <2>1. fs' = fs /\ pc = "copying" /\ use = "source" /\ loaded \in Sources(job)
      BY <1>9 DEF SaveEnds, IInv, Established
    <2>2. \A k \in 1..NumJobs : ~Hollow(k)
      <3>1. ~Hollow(job)
        BY <2>1 DEF IInv, Established, Hollow, Source
      <3> QED
        BY <2>1, <3>1, OneHollow DEF Patching
    <2>3. saved' = saved \/ saved' = loaded
      BY <1>9, <2>1 DEF SaveEnds
    <2>4. \A j \in 1..NumJobs : loaded # Jobs[j].new
      BY <2>1, <1>j, ScriptAssumption DEF NumJobs
    <2>5. CopyOrdered' /\ NoNewCopies' /\ \A k \in 1..NumJobs : ~Lost(k)'
      BY <2>1, <2>2, <2>3, <2>4
      DEF IInv, CopyOrdered, NoNewCopies, Hollow, Lost, IsNew
    <2>6. CASE pc' = "failed"
      BY <2>5, <2>6, <1>o
    <2>7. CASE pc' # "failed"
      <3>1. saved' = loaded /\ Goto(IF Target \in Mtd THEN "output" ELSE "unlink")
        BY <1>9, <2>1, <2>7, <1>g DEF SaveEnds, GiveUp
      <3> QED
        BY <3>1, <2>1, <2>5, <1>t
        DEF IInv, Checked, InOrder, Established, Patching, Goto, Source, Target, IsNew
    <2> QED
      BY <2>6, <2>7
  <1>10. CASE UnlinkSource
    <2>1. /\ fs' = [fs EXCEPT ![Source] = Absent] /\ saved' = saved
          /\ pc = "unlink" /\ pc' = "output" /\ job' = job
      BY <1>10 DEF UnlinkSource, Goto
    <2>2. ~IsNew(job) /\ saved \in Sources(job)
      BY <2>1 DEF IInv, Established, Patching
    <2>3. fs \in [Files -> Held] /\ Source \in Files /\ Target \in Files
      BY <1>t, <1>j, JobTypes DEF TypeOK, Source, Target
    <2>4. ~IsNew(job)'
      BY <2>1, <2>2, <2>3, <1>j, NoMatch DEF IsNew, Source, Target
    <2>5. \A k \in 1..NumJobs : k # job => (IsNew(k)' <=> IsNew(k)) /\ ~Hollow(k)'
      BY <2>1, OneHollow, OtherJobs DEF Patching
    <2>6. \A i \in 1..(job - 1) : IsNew(i)'
      BY <2>1, <2>5, <1>j DEF IInv, InOrder, Patching
    <2>7. CopyOrdered'
      BY <2>5, <2>6, <1>j DEF CopyOrdered
    <2>8. NoNewCopies'
      <3> SUFFICES ASSUME NEW k \in 1..NumJobs
                   PROVE  /\ saved' # Jobs[k].new
                          /\ Jobs[k].source # Jobs[k].target => fs'[Jobs[k].source] # Jobs[k].new
        BY DEF NoNewCopies
      <3>1. fs'[Jobs[k].source] = fs[Jobs[k].source] \/ fs'[Jobs[k].source] = Absent
        BY <2>1, <2>3, JobTypes
      <3> QED
        BY <3>1, <2>1, NoMatch DEF IInv, NoNewCopies
    <2>9. \A k \in 1..NumJobs : ~Lost(k)'
      BY <2>1, <2>2, <2>5 DEF Lost
    <2> QED
      BY <2>1, <2>2, <2>4, <2>6, <2>7, <2>8, <2>9, <1>t
      DEF IInv, Checked, InOrder, Established, Patching
  <1>11. CASE OpenOutput
    <2>1. fs' = fs /\ saved' = saved /\ pc = "output"
      BY <1>11 DEF OpenOutput
    <2>2. CASE Fault("patch")
      BY <2>1, <2>2, <1>g, <1>o, QuietStep
    <2>3. CASE Goto("patching") /\ UNCHANGED locals
      BY <2>1, <2>3, <1>t, <1>j, QuietStep
      DEF Goto, IInv, Checked, InOrder, Established, Patching
    <2> QED
      BY <1>11, <2>2, <2>3 DEF OpenOutput
  <1>12. CASE Patch
    <2>1. fs' = fs /\ saved' = saved /\ pc = "patching"
      BY <1>12 DEF Patch
    <2>2. CASE Fault("patch")
      BY <2>1, <2>2, <1>g, <1>o, QuietStep
    <2>3. CASE ~Fault("patch")
      <3>1. /\ Goto("install")
            /\ out' = IF Target \in Mtd THEN out ELSE [out EXCEPT ![Target] = Jobs[job].new]
        BY <1>12, <2>3 DEF Patch
      <3>2. Target' = Target /\ job' = job
        BY <3>1 DEF Goto, Target
      <3>3. Target \notin Mtd => out'[Target] = Jobs[job].new
        BY <3>1, <1>t, <1>j, JobTypes DEF TypeOK, Target
      <3> QED
        BY <3>1, <3>2, <3>3, <2>1, <1>t, <1>j, QuietStep
        DEF Goto, IInv, Checked, InOrder, Established, Patching
    <2> QED
      BY <2>2, <2>3
  \* The step that makes the file new.
  <1>n. ASSUME fs' = [fs EXCEPT ![Target] = Jobs[job].new], saved' = saved,
               pc \in Patching, pc' \in {"clean", "failed"}, job' = job
        PROVE  IInv'
    <2>1. fs \in [Files -> Held] /\ Target \in Files /\ Target \in {Source, Target}
      BY <1>t, <1>j, JobTypes DEF TypeOK, Target
    <2>2. IsNew(job)'
      BY <1>n, <2>1 DEF IsNew, Target
    <2>3. \A k \in 1..NumJobs : k # job => (IsNew(k)' <=> IsNew(k)) /\ ~Hollow(k)'
      BY <1>n, <2>1, OneHollow, OtherJobs
    <2>4. \A i \in 1..(job - 1) : IsNew(i)'
      BY <1>n, <2>3, <1>j DEF IInv, InOrder
    <2>5. \A k \in 1..NumJobs : ~Hollow(k)'
      BY <1>n, <2>2, <2>3 DEF Hollow
    <2>6. CopyOrdered'
      BY <2>5 DEF CopyOrdered
    <2>7. NoNewCopies'
      <3> SUFFICES ASSUME NEW k \in 1..NumJobs
                   PROVE  /\ saved' # Jobs[k].new
                          /\ Jobs[k].source # Jobs[k].target => fs'[Jobs[k].source] # Jobs[k].new
        BY DEF NoNewCopies
      <3>1. CASE k = job
        BY <1>n, <2>1, <3>1, JobTypes DEF IInv, NoNewCopies, Target
      <3>2. CASE k # job
        BY <1>n, <2>1, <3>2, OtherJobs DEF IInv, NoNewCopies
      <3> QED
        BY <3>1, <3>2
    <2> QED
      BY <1>n, <2>2, <2>4, <2>5, <2>6, <2>7, <1>t
      DEF IInv, Checked, InOrder, Established, Patching, Lost
  <1>13. CASE Rename
    <2>1. saved' = saved /\ pc = "install" /\ Target \notin Mtd
      BY <1>13 DEF Rename
    <2>2. CASE Fault("install")
      BY <1>13, <2>1, <2>2, <1>g, <1>o, QuietStep DEF Rename, Goto
    <2>3. CASE ~Fault("install")
      BY <1>13, <2>1, <2>3, <1>n DEF Rename, Goto, IInv, Established, Patching
    <2> QED
      BY <2>2, <2>3
  <1>14. CASE FlashBegins
    <2>1. saved' = saved /\ pc = "install" /\ Target \in Mtd
      BY <1>14 DEF FlashBegins
    <2>2. CASE Fault("install")
      <3>1. fs' = fs
        BY <1>14, <2>2, <1>g DEF FlashBegins, Goto
      <3> QED
        BY <2>1, <2>2, <3>1, <1>g, <1>o, QuietStep
    <2>3. CASE ~Fault("install")
      <3>1. /\ fs' = [fs EXCEPT ![Target] = Torn]
            /\ pc' = "flashing" /\ job' = job
        BY <1>14, <2>3 DEF FlashBegins, Goto
      <3>2. fs \in [Files -> Held] /\ Source \in Files /\ Target \in Files
        BY <1>t, <1>j, JobTypes DEF TypeOK, Source, Target
      <3>3. ~IsNew(job)' /\ saved \in Sources(job)
        BY <2>1, <3>1, <3>2, <1>j, NoMatch DEF IsNew, Target, IInv, Established
      <3>4. \A k \in 1..NumJobs : k # job => (IsNew(k)' <=> IsNew(k)) /\ ~Hollow(k)'
        BY <2>1, <3>1, OneHollow, OtherJobs DEF Patching
      <3>5. \A i \in 1..(job - 1) : IsNew(i)'
        BY <2>1, <3>4, <1>j DEF IInv, InOrder, Patching
      <3>6. CopyOrdered'
        BY <3>4, <3>5, <1>j DEF CopyOrdered
      <3>7. NoNewCopies'
        <4> SUFFICES ASSUME NEW k \in 1..NumJobs
                     PROVE  /\ saved' # Jobs[k].new
                            /\ Jobs[k].source # Jobs[k].target =>
                                   fs'[Jobs[k].source] # Jobs[k].new
          BY DEF NoNewCopies
        <4>1. fs'[Jobs[k].source] = fs[Jobs[k].source] \/ fs'[Jobs[k].source] = Torn
          BY <3>1, <3>2, JobTypes
        <4> QED
          BY <4>1, <2>1, NoMatch DEF IInv, NoNewCopies
      <3>8. \A k \in 1..NumJobs : ~Lost(k)'
        BY <2>1, <3>3, <3>4 DEF Lost
      <3> QED
        BY <2>1, <3>1, <3>3, <3>5, <3>6, <3>7, <3>8, <1>t
        DEF IInv, Checked, InOrder, Established, Patching
    <2> QED
      BY <2>2, <2>3
  <1>15. CASE FlashEnds
    <2>1. saved' = saved /\ pc = "flashing"
      BY <1>15 DEF FlashEnds
    <2>2. CASE Fault("install")
      <3>1. fs' = fs \/ fs' = [fs EXCEPT ![Target] = Jobs[job].new]
        BY <1>15 DEF FlashEnds
      <3>2. pc' = "failed" /\ job' = job
        BY <2>2 DEF Fault, GiveUp
      <3>3. CASE fs' = fs
        BY <2>1, <3>2, <3>3, <1>o, QuietStep
      <3>4. CASE fs' = [fs EXCEPT ![Target] = Jobs[job].new]
        BY <2>1, <3>2, <3>4, <1>n DEF Patching
      <3> QED
        BY <3>1, <3>3, <3>4
    <2>3. CASE ~Fault("install")
      BY <1>15, <2>1, <2>3, <1>n DEF FlashEnds, Goto, Patching
    <2> QED
      BY <2>2, <2>3
  <1>16. CASE Clean
    <2>1. fs' = fs /\ pc = "clean" /\ saved' = IF made_copy THEN Absent ELSE saved
      BY <1>16 DEF Clean
    <2>2. CopyOrdered' /\ NoNewCopies' /\ \A k \in 1..NumJobs : ~Lost(k)'
      <3>1. CASE made_copy
        <4>1. \A k \in 1..NumJobs : ~Hollow(k)
          BY <2>1, <3>1 DEF IInv, Established
        <4> QED
          BY <2>1, <3>1, <4>1, NoMatch
          DEF IInv, CopyOrdered, NoNewCopies, Hollow, Lost, IsNew
      <3>2. CASE ~made_copy
        BY <2>1, <3>2, QuietStep DEF IInv, Checked
      <3> QED
        BY <3>1, <3>2
    <2>3. \A i \in 1..job : IsNew(i)'
      BY <2>1, <1>j DEF IInv, InOrder, Established, IsNew
    <2>4. CASE job < NumJobs
      <3>1. job' = job + 1 /\ pc' = "load"
        BY <1>16, <2>4 DEF Clean, NextJob
      <3> QED
        BY <3>1, <2>2, <2>3, <1>j, <1>t DEF IInv, Checked, InOrder, Established, Patching
    <2>5. CASE ~(job < NumJobs)
      <3>1. pc' = "done" /\ job = NumJobs
        BY <1>16, <2>5, <1>j DEF Clean, NextJob
      <3> QED
        BY <3>1, <2>2, <2>3, <1>t DEF IInv, Checked, InOrder, Established, Patching
    <2> QED
      BY <2>4, <2>5
  <1>17. CASE UNCHANGED vars
    BY <1>17 DEF vars, flash, locals, boundVars, IInv, TypeOK, CopyOrdered, Checked, InOrder,
       NoNewCopies, Established, IsNew, Hollow, Lost, Source, Target
  <1> QED
    BY <1>1, <1>2, <1>3, <1>4, <1>5, <1>6, <1>7, <1>8, <1>9, <1>10, <1>11, <1>12,
       <1>13, <1>14, <1>15, <1>16, <1>17 DEF Next, Updater

\* The inductive invariant holds of every reachable state.
THEOREM Invariance == ASSUME SinglePatchPartitions PROVE Spec => []IInv
  <1>1. Init => IInv
    BY InitInv
  <1>2. IInv /\ [Next]_vars => IInv'
    BY StepInv
  <1> QED
    BY <1>1, <1>2, PTL DEF Spec

-----------------------------------------------------------------------------
(* Refinement of AtomicUpdate                                              *)

\* A step leaves every file as old, new or lost as it was, or it makes the
\* file being patched new.
LEMMA StateStep ==
    ASSUME SinglePatchPartitions, IInv, IInv', [Next]_vars
    PROVE  \/ \A k \in 1..NumJobs : (IsNew(k)' <=> IsNew(k)) /\ (Lost(k)' <=> Lost(k))
           \/ /\ pc \in Patching /\ pc' \in {"clean", "failed"} /\ job' = job
              /\ fs' = [fs EXCEPT ![Target] = Jobs[job].new] /\ saved' = saved
  <1> DEFINE Same == \A k \in 1..NumJobs : (IsNew(k)' <=> IsNew(k)) /\ (Lost(k)' <=> Lost(k))
             Renewed == /\ pc \in Patching /\ pc' \in {"clean", "failed"} /\ job' = job
                        /\ fs' = [fs EXCEPT ![Target] = Jobs[job].new] /\ saved' = saved
  <1> USE JobCount
  <1>j. job \in 1..NumJobs
    BY DEF IInv, TypeOK
  <1>q. ASSUME fs' = fs, saved' = saved PROVE Same
    BY <1>q, QuietStep
  <1>l. ASSUME pc \in Patching \cup {"space", "load", "clean"},
               pc' \in Patching \cup {"space", "load", "clean", "done"},
               \A k \in 1..NumJobs : IsNew(k)' <=> IsNew(k)
        PROVE  Same
    BY <1>l DEF IInv, Checked, InOrder, Lost, Hollow
  <1>f. ASSUME fs' = fs PROVE \A k \in 1..NumJobs : IsNew(k)' <=> IsNew(k)
    BY <1>f DEF IsNew
  <1>1. CASE Start \/ Retry \/ Crash \/ Check \/ Load \/ UNCHANGED vars
    BY <1>1, <1>q DEF Start, Retry, Crash, Check, Load, vars, flash
  <1>2. CASE CacheSizeCheck \/ MakeRoom \/ OpenOutput \/ Patch
    BY <1>2, <1>q, RoomKeeps
    DEF CacheSizeCheck, MakeRoom, OpenOutput, Patch, MakeFreeSpaceOnCache, flash
  <1>3. CASE SaveBegins
    BY <1>3, <1>q, <1>l, <1>f DEF SaveBegins, Goto, Patching
  <1>4. CASE SaveEnds
    <2>1. fs' = fs /\ pc = "copying" /\ use = "source"
      BY <1>4 DEF SaveEnds, IInv, Established
    <2>2. ~Hollow(job)
      BY <2>1 DEF IInv, Established, Hollow, Source
    <2>3. \A k \in 1..NumJobs : ~Hollow(k)
      BY <2>1, <2>2, OneHollow DEF Patching
    <2> QED
      BY <2>1, <2>3 DEF Lost, Hollow, IsNew
  <1>5. CASE UnlinkSource
    <2>1. /\ fs' = [fs EXCEPT ![Source] = Absent]
          /\ pc = "unlink" /\ pc' = "output" /\ job' = job
      BY <1>5 DEF UnlinkSource, Goto
    <2>2. ~IsNew(job) /\ ~IsNew(job)'
      BY <2>1 DEF IInv, Established, Patching
    <2>3. \A k \in 1..NumJobs : IsNew(k)' <=> IsNew(k)
      BY <2>1, <2>2, OtherJobs
    <2> QED
      BY <2>1, <2>3, <1>l DEF Patching
  <1>6. CASE Rename
    BY <1>6, <1>q DEF Rename, Goto, IInv, Established, Patching
  <1>7. CASE FlashBegins
    <2>1. CASE fs' = fs
      BY <1>7, <2>1, <1>q DEF FlashBegins
    <2>2. CASE fs' # fs
      <3>1. /\ fs' = [fs EXCEPT ![Target] = Torn]
            /\ pc = "install" /\ pc' = "flashing" /\ job' = job
        BY <1>7, <2>2 DEF FlashBegins, Goto
      <3>2. ~IsNew(job) /\ ~IsNew(job)'
        BY <3>1 DEF IInv, Established, Patching
      <3>3. \A k \in 1..NumJobs : IsNew(k)' <=> IsNew(k)
        BY <3>1, <3>2, OtherJobs
      <3> QED
        BY <3>1, <3>3, <1>l DEF Patching
    <2> QED
      BY <2>1, <2>2
  <1>8. CASE FlashEnds
    BY <1>8, <1>q DEF FlashEnds, Fault, GiveUp, Goto, Patching
  <1>9. CASE Clean
    BY <1>9, <1>l, <1>f DEF Clean, NextJob
  <1> QED
    BY <1>1, <1>2, <1>3, <1>4, <1>5, <1>6, <1>7, <1>8, <1>9 DEF Next, Updater

\* Success is reported, or taken back for another try, in no other way.
LEMMA ReportStep ==
    ASSUME IInv, IInv', [Next]_vars
    PROVE  pc' = "done" /\ pc # "done" => \A k \in 1..NumJobs : IsNew(k)'
  BY DEF IInv, InOrder

LEMMA InitUpdate == Init => Whole!Init
  BY DEF Init, Whole!Init, JobState

LEMMA StepUpdate ==
    ASSUME SinglePatchPartitions, IInv, IInv', [Next]_vars
    PROVE  [Whole!Next]_(Whole!update)
  <1> DEFINE st == [j \in 1..NumJobs |-> JobState(j)]
  <1> USE JobCount
  <1>j. job \in 1..NumJobs
    BY DEF IInv, TypeOK
  <1>1. CASE \A k \in 1..NumJobs : (IsNew(k)' <=> IsNew(k)) /\ (Lost(k)' <=> Lost(k))
    <2>1. st' = st
      BY <1>1 DEF JobState
    <2>2. CASE (pc' = "done") = (pc = "done")
      BY <2>1, <2>2 DEF Whole!update
    <2>3. CASE pc' = "done" /\ pc # "done"
      <3>1. \A k \in 1..NumJobs : st[k] = "new"
        BY <2>3, <1>1, ReportStep DEF JobState
      <3> QED
        BY <2>1, <2>3, <3>1 DEF Whole!Next, Whole!Report
    <2>4. CASE pc' # "done" /\ pc = "done"
      BY <2>1, <2>4 DEF Whole!Next, Whole!Again
    <2> QED
      BY <2>2, <2>3, <2>4
  <1>2. CASE /\ pc \in Patching /\ pc' \in {"clean", "failed"} /\ job' = job
             /\ fs' = [fs EXCEPT ![Target] = Jobs[job].new] /\ saved' = saved
    <2>1. \A k \in 1..NumJobs : ~Lost(k) /\ (k < job => IsNew(k))
      BY <1>2, <1>j DEF IInv, Checked, InOrder
    <2>2. ~IsNew(job) /\ IsNew(job)'
      BY <1>2, <1>j, JobTypes DEF IInv, TypeOK, Established, IsNew, Target
    <2>3. \A k \in 1..NumJobs : k # job => JobState(k)' = JobState(k)
      <3> SUFFICES ASSUME NEW k \in 1..NumJobs, k # job
                   PROVE  JobState(k)' = JobState(k)
        OBVIOUS
      <3>1. (IsNew(k)' <=> IsNew(k)) /\ (Hollow(k)' <=> Hollow(k))
        BY <1>2, OtherJobs
      <3> QED
        BY <1>2, <3>1 DEF JobState, Lost
    <2>4. JobState(job)' = "new" /\ JobState(job) = "old"
      BY <1>j, <2>1, <2>2 DEF JobState
    <2>5. st' = [st EXCEPT ![job] = "new"]
      BY <1>2, <1>j, <2>3, <2>4
    <2>6. /\ \A k \in 1..NumJobs : st[k] # "lost"
          /\ st[job] = "old"
          /\ \A i \in 1..(job - 1) : st[i] = "new"
      BY <1>j, <2>1, <2>4 DEF JobState
    <2>7. (pc' = "done") = (pc = "done")
      BY <1>2 DEF Patching
    <2> HIDE DEF st
    <2>8. Whole!Replace(job)
      BY <2>5, <2>6, <2>7, <1>j DEF Whole!Replace, Whole!Possible, st
    <2> QED
      BY <2>8, <1>j DEF Whole!Next
  <1> QED
    BY <1>1, <1>2, StateStep

\* Incremental patching implements the atomic update: whatever call fails and
\* whenever power is lost, each file is old or new and can be had, files go
\* over in order, and success means that all are new (applypatch.c:525-815).
THEOREM UpdateImplemented ==
    ASSUME SinglePatchPartitions PROVE Spec => ImplementsUpdate
  <1>1. Init => Whole!Init
    BY InitUpdate
  <1>2. IInv /\ IInv' /\ [Next]_vars => [Whole!Next]_(Whole!update)
    BY StepUpdate
  <1>3. Spec => []IInv
    BY Invariance
  <1> QED
    BY <1>1, <1>2, <1>3, PTL DEF Spec, ImplementsUpdate, Whole!Spec

\* A package one of whose files is lost changes no file: only a patching step
\* writes one, and the checks come first (applypatch.c:403-440).
THEOREM LostTouchesNothing ==
    ASSUME SinglePatchPartitions PROVE Spec => NothingTouched
  <1>1. ASSUME IInv, [Next]_vars, NEW k \in 1..NumJobs, JobState(k) = "lost"
        PROVE  UNCHANGED fs
    <2>1. Lost(k)
      BY <1>1 DEF JobState
    <2>2. pc \notin Patching
      BY <1>1, <2>1 DEF IInv, Checked
    <2>3. fs' = fs
      BY <1>1, <2>2, RoomKeeps
      DEF Next, Updater, Patching, Start, Retry, Crash, Check, CacheSizeCheck, Load, MakeRoom,
          SaveBegins, SaveEnds, UnlinkSource, OpenOutput, Patch, Rename, FlashBegins,
          FlashEnds, Clean, MakeFreeSpaceOnCache, flash, vars
    <2> QED
      BY <2>3
  <1>2. IInv /\ [Next]_vars =>
            [(\E j \in 1..NumJobs : JobState(j) = "lost") => UNCHANGED fs]_vars
    BY <1>1
  <1>3. Spec => []IInv
    BY Invariance
  <1> QED
    BY <1>2, <1>3, PTL DEF Spec, NothingTouched

-----------------------------------------------------------------------------
(* The check predicts the patching                                         *)

\* A source is found in the list, as the first or as a later one.
LEMMA SourceMatches ==
    ASSUME NEW j \in 1..NumJobs, NEW c \in Sources(j)
    PROVE  /\ FindMatchingPatch(c, Jobs[j].patches) > 0
           /\ \/ FindMatchingPatch(c, Jobs[j].patches) = 1
              \/ FindMatchingPatch(c, Jobs[j].patches) > 1
  <1> DEFINE list == Jobs[j].patches
             First(i) == list[i] = c /\ \A k \in 1..(i - 1) : list[k] # c
             found == FindMatchingPatch(c, list)
  <1>1. list \in Seq(Contents) /\ Len(list) \in Nat
    BY JobTypes
  <1>2. \E i \in 1..Len(list) : list[i] = c
    BY DEF Sources
  <1>3. \E i \in 1..Len(list) : First(i)
    BY <1>1, <1>2, FirstExists
  <1>4. found = CHOOSE i \in 1..Len(list) : First(i)
    BY <1>2 DEF FindMatchingPatch
  <1>5. found \in 1..Len(list) /\ list[found] = c
    BY <1>3, <1>4
  <1> HIDE DEF found
  <1>6. found # 1 => found > 1
    BY <1>1, <1>5
  <1> QED
    BY <1>1, <1>5, <1>6 DEF found

\* Everything a step can do to the files and to the copy.
LEMMA FlashStep ==
    ASSUME SinglePatchPartitions, IInv, [Next]_vars
    PROVE  \/ fs' = fs /\ saved' \in {saved, Absent, Torn}
           \/ fs' = fs /\ pc = "copying" /\ saved' = fs[Source]
           \/ /\ fs' = [fs EXCEPT ![Source] = Absent] /\ saved' = saved
              /\ pc \in Patching /\ Target \notin Mtd
           \/ /\ fs' = [fs EXCEPT ![Target] = Torn] /\ saved' = saved
              /\ pc \in Patching /\ Target \in Mtd
           \/ /\ fs' = [fs EXCEPT ![Target] = Jobs[job].new] /\ saved' = saved
              /\ pc \in Patching
  <1>1. CASE Start \/ Retry \/ Crash \/ Check \/ Load \/ UNCHANGED vars
    BY <1>1 DEF Start, Retry, Crash, Check, Load, vars, flash
  <1>2. CASE CacheSizeCheck \/ MakeRoom \/ OpenOutput \/ Patch
    BY <1>2, RoomKeeps
    DEF CacheSizeCheck, MakeRoom, OpenOutput, Patch, MakeFreeSpaceOnCache, flash
  <1>3. CASE SaveBegins
    BY <1>3 DEF SaveBegins
  <1>4. CASE SaveEnds
    <2>1. fs' = fs /\ pc = "copying" /\ use = "source" /\ loaded = fs[Source]
      BY <1>4 DEF SaveEnds, IInv, Established
    <2>2. saved' = saved \/ saved' = loaded
      BY <1>4, <2>1 DEF SaveEnds
    <2> QED
      BY <2>1, <2>2
  <1>5. CASE UnlinkSource
    BY <1>5 DEF UnlinkSource, IInv, Established, Patching
  <1>6. CASE Rename
    BY <1>6 DEF Rename, IInv, Established, Patching
  <1>7. CASE FlashBegins
    BY <1>7 DEF FlashBegins, Patching
  <1>8. CASE FlashEnds
    BY <1>8 DEF FlashEnds, Patching
  <1>9. CASE Clean
    BY <1>9 DEF Clean
  <1> QED
    BY <1>1, <1>2, <1>3, <1>4, <1>5, <1>6, <1>7, <1>8, <1>9 DEF Next, Updater

LEMMA StepPartition ==
    ASSUME SinglePatchPartitions, IInv, PartitionCopies, [Next]_vars
    PROVE  PartitionCopies'
  <1> SUFFICES ASSUME NEW j \in 1..NumJobs, Jobs[j].target \in Mtd, Hollow(j)',
                      saved' \in Sources(j)
               PROVE  fs'[Jobs[j].target] = Torn
    BY DEF PartitionCopies
  <1>1. job \in 1..NumJobs /\ Source \in Files /\ Target \in Files /\ fs \in [Files -> Held]
    BY JobTypes DEF IInv, TypeOK, Source, Target
  <1>2. CASE fs' = fs /\ saved' \in {saved, Absent, Torn}
    BY <1>2, NoMatch DEF PartitionCopies, Hollow, IsNew
  <1>3. CASE fs' = fs /\ pc = "copying" /\ saved' = fs[Source]
    <2>1. ~Hollow(job)
      BY <1>3 DEF IInv, Established, Hollow, Source
    <2>2. ~Hollow(j)
      BY <1>3, <2>1, OneHollow DEF Patching
    <2> QED
      BY <1>3, <2>2 DEF Hollow, IsNew
  <1>4. ASSUME pc \in Patching, j # job, NEW f \in {Source, Target}, NEW c,
               fs' = [fs EXCEPT ![f] = c]
        PROVE  FALSE
    BY <1>4, OneHollow, OtherJobs
  <1>5. CASE /\ fs' = [fs EXCEPT ![Source] = Absent] /\ pc \in Patching
             /\ Target \notin Mtd
    <2>1. j # job
      BY <1>5 DEF Target
    <2> QED
      BY <1>4, <1>5, <2>1
  <1>6. CASE /\ fs' = [fs EXCEPT ![Target] = Torn] /\ pc \in Patching
             /\ Target \in Mtd
    <2>1. j = job
      BY <1>4, <1>6
    <2> QED
      BY <1>1, <1>6, <2>1 DEF Target
  <1>7. CASE fs' = [fs EXCEPT ![Target] = Jobs[job].new] /\ pc \in Patching
    <2>1. j = job
      BY <1>4, <1>7
    <2>2. IsNew(j)'
      BY <1>1, <1>7, <2>1 DEF Target, IsNew
    <2> QED
      BY <2>2 DEF Hollow
  <1> QED
    BY <1>2, <1>3, <1>5, <1>6, <1>7, FlashStep

\* apply_patch turns a file down only at its start.
LEMMA StepPredicts ==
    ASSUME CheckedEnough, SinglePatchPartitions, IInv, PartitionCopies,
           CheckPredictsApply, [Next]_vars
    PROVE  CheckPredictsApply'
  <1> SUFFICES ASSUME pc' = "failed", why' \in {"source", "copy"}
               PROVE  Stuck(job)'
    BY DEF CheckPredictsApply
  <1>j. job \in 1..NumJobs
    BY DEF IInv, TypeOK
  <1>g. ASSUME NEW kind, Fault(kind) PROVE why' = "fault"
    BY <1>g DEF Fault, GiveUp
  <1>1. CASE pc = "failed"
    <2>1. UNCHANGED <<fs, saved, why, job, pc>>
      BY <1>1 DEF Next, Updater, Start, Retry, Crash, Check, CacheSizeCheck, Load, MakeRoom,
         SaveBegins, SaveEnds, UnlinkSource, OpenOutput, Patch, Rename, FlashBegins,
         FlashEnds, Clean, vars, flash
    <2> QED
      BY <1>1, <2>1 DEF CheckPredictsApply, Stuck, Hollow, IsNew
  <1>2. CASE pc # "failed" /\ ~Load
    <2>1. ~Check \/ why' = "check"
      BY <1>2 DEF Check, GiveUp
    <2>2. SaveEnds => why' = "fault"
      BY <1>g, <1>2 DEF SaveEnds, Goto, IInv, Established
    <2>3. CacheSizeCheck \/ MakeRoom \/ SaveBegins \/ OpenOutput \/ Patch \/ Rename
             \/ FlashBegins \/ FlashEnds => why' = "fault"
      BY <1>g, <1>2 DEF CacheSizeCheck, MakeRoom, SaveBegins, OpenOutput, Patch, Rename,
         FlashBegins, FlashEnds, MakeFreeSpaceOnCache, Goto
    <2>4. ~(Start \/ Retry \/ Crash \/ UnlinkSource \/ Clean \/ UNCHANGED vars)
      BY <1>2 DEF Start, Retry, Crash, UnlinkSource, Clean, NextJob, Goto, vars
    <2>5. why' # "copy" /\ why' # "source"
      BY <1>2, <2>1, <2>2, <2>3, <2>4 DEF Next, Updater
    <2> QED
      BY <2>5
  <1>3. CASE pc # "failed" /\ Load
    <2>1. pc = "load" /\ fs' = fs /\ saved' = saved
      BY <1>3 DEF Load, flash
    <2>2. LoadFileContents(Target, job) # Jobs[job].new
      BY <1>3 DEF Load, NextJob
    <2>3. /\ job' = job
          /\ use' = IF FindMatchingPatch(LoadSource, Patches) > 0 THEN "source" ELSE "copy"
          /\ (use' = "copy" /\ ~CopyUsable) \/ NoRoom
      BY <1>3, <2>2 DEF Load, Goto
    <2>4. use' = "copy" => Hollow(job) /\ saved \in Sources(job)
      <3> SUFFICES ASSUME use' = "copy" PROVE Hollow(job) /\ saved \in Sources(job)
        OBVIOUS
      <3>1. ~IsNew(job)
        BY <2>2, <1>j DEF LoadFileContents, Listed, IsNew, Target
      <3>2. LoadSource \notin Sources(job)
        BY <2>3, <1>j, SourceMatches DEF Patches
      <3>3. fs[Source] \notin Sources(job)
        BY <3>2 DEF LoadSource, LoadFileContents, Listed
      <3>4. ~Lost(job)
        BY <2>1, <1>j DEF IInv, Checked
      <3> QED
        BY <3>1, <3>3, <3>4 DEF Hollow, Lost, Source
    <2>5. CASE Target \in Mtd
      <3>1. use' = "copy"
        BY <2>3, <2>5 DEF NoRoom
      <3>2. fs[Target] = Torn
        BY <2>4, <2>5, <3>1, <1>j DEF PartitionCopies, Target
      <3> QED
        BY <2>1, <2>3, <2>5, <3>2 DEF Stuck, Target
    <2>6. CASE Target \notin Mtd
      <3>1. Source \notin Mtd
        BY <2>6, <1>j DEF CheckedEnough, Source, Target
      <3>2. use' = "copy" /\ ~CopyUsable
        BY <2>3, <3>1 DEF NoRoom
      <3>3. FindMatchingPatch(saved, Patches) = 1
        BY <3>2, <2>4, <1>j, SourceMatches DEF CopyUsable, Patches
      <3> QED
        BY <2>1, <2>3, <2>4, <2>6, <3>2, <3>3 DEF Stuck, Hollow, IsNew, Target, Patches
    <2> QED
      BY <2>5, <2>6
  <1> QED
    BY <1>1, <1>2, <1>3

\* What apply_patch_check accepts apply_patch does not turn down, on the first
\* start or on any later one, whatever the lengths and the contents of the
\* lists, except for a partition whose write was interrupted and for a file that
\* is gone and whose copy fits the first patch of its list
\* (applypatch.c:420-436 against 580-601).
THEOREM CheckPredicts ==
    ASSUME CheckedEnough, SinglePatchPartitions
    PROVE  Spec => []CheckPredictsApply
  <1> DEFINE Inv == PartitionCopies /\ CheckPredictsApply
  <1>1. Init => Inv
    BY DEF Init, CheckedEnough, PartitionCopies, CheckPredictsApply
  <1>2. IInv /\ Inv /\ [Next]_vars => Inv'
    BY StepPartition, StepPredicts
  <1>3. Spec => []IInv
    BY Invariance
  <1> QED
    BY <1>1, <1>2, <1>3, PTL DEF Spec
=============================================================================
