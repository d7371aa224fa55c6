-------------------------- MODULE MCInstallProofs --------------------------
(***************************************************************************)
(* Proofs about the installer and the volumes: InstallSafe for every       *)
(* package, pipe and number of lines, and VolumesSafe for every size of    *)
(* the buffer that /proc/mounts is read into and any number of calls.      *)
(***************************************************************************)
EXTENDS MCInstall, SequenceTheorems, FiniteSetTheorems, WellFoundedInduction,
        NaturalsInduction, TLAPS

AllLines == Pkg!UpdaterLines \cup Pkg!BinaryLines

\* What is written, on its way and obeyed are lists of lines, and a script is
\* there and readable and correct, or not.
LinesTyped ==
    /\ written \in Seq(AllLines) /\ pipe \in Seq(AllLines) /\ obeyed \in Seq(AllLines)
    /\ pkg.script \in {"good", "missing", "unreadable", "wrong"}

InstallInv == LinesTyped /\ Pkg!CommandsOrdered
TreeInv    == Pkg!TreeKnown /\ Pkg!TreeSwept

-----------------------------------------------------------------------------
\* The first line of the second of two lists moves to the end of the first.
LEMMA OneOver ==
    ASSUME NEW L, NEW a \in Seq(L), NEW b \in Seq(L), b # <<>>
    PROVE  a \o b = Append(a, Head(b)) \o Tail(b) /\ a \o b # <<>>
<1>1. Len(a \o b) > 0 /\ a \o b \in Seq(L)
  OBVIOUS
<1>2. a \o b # <<>>
  BY <1>1
<1>3. a \o b = Append(a, Head(b)) \o Tail(b)
  OBVIOUS
<1> QED BY <1>2, <1>3

\* The first firmware command stays the first when lines follow it (the loop
\* of try_update_binary keeps firmware_type once it is set).
LEMMA FirstStays ==
    ASSUME NEW s \in Seq(AllLines), NEW l \in AllLines, NEW f, Pkg!FirstFirmware(s, f)
    PROVE  Pkg!FirstFirmware(Append(s, l), f)
<1>1. PICK k \in DOMAIN s : s[k].fw = f /\ \A j \in 1 .. k - 1 : s[j].fw = Pkg!None
  BY DEF Pkg!FirstFirmware
<1>2. k \in DOMAIN Append(s, l) /\ Append(s, l)[k] = s[k]
      /\ \A j \in 1 .. k - 1 : Append(s, l)[j] = s[j]
  OBVIOUS
<1> QED BY <1>1, <1>2 DEF Pkg!FirstFirmware

\* The first firmware command after lines that name none.
LEMMA FirstNew ==
    ASSUME NEW s \in Seq(AllLines), NEW l \in AllLines, \A k \in DOMAIN s : s[k].fw = Pkg!None
    PROVE  Pkg!FirstFirmware(Append(s, l), l.fw)
<1>1. Len(s) + 1 \in DOMAIN Append(s, l) /\ Append(s, l)[Len(s) + 1] = l
      /\ \A j \in 1 .. Len(s) + 1 - 1 : j \in DOMAIN s /\ Append(s, l)[j] = s[j]
  OBVIOUS
<1> QED BY <1>1 DEF Pkg!FirstFirmware

\* Lines that name no firmware stay so when another such line follows.
LEMMA NoneStays ==
    ASSUME NEW s \in Seq(AllLines), NEW l \in AllLines, l.fw = Pkg!None,
           \A k \in DOMAIN s : s[k].fw = Pkg!None
    PROVE  \A k \in DOMAIN Append(s, l) : Append(s, l)[k].fw = Pkg!None
OBVIOUS

\* Writing a line: BinaryEnds and Write.
LEMMA WriteOrder ==
    ASSUME InstallInv, NEW l \in AllLines, pipe' = Append(pipe, l), written' = Append(written, l),
           UNCHANGED <<obeyed, pkg>>
    PROVE  LinesTyped' /\ written' = obeyed' \o pipe' /\ written' # <<>>
<1>1. Append(obeyed \o pipe, l) = obeyed \o Append(pipe, l)
  <2>1. obeyed \in Seq(AllLines) /\ pipe \in Seq(AllLines)
    BY DEF InstallInv, LinesTyped
  <2>2. Append(pipe, l) = pipe \o <<l>> /\ Append(obeyed \o pipe, l) = (obeyed \o pipe) \o <<l>>
    BY <2>1, AppendIsConcat, ConcatProperties
  <2>3. <<l>> \in Seq(AllLines)
    OBVIOUS
  <2> QED BY <2>1, <2>2, <2>3, ConcatAssociative
<1>2. LinesTyped' /\ written' # <<>>
  BY DEF InstallInv, LinesTyped
<1> QED BY <1>1, <1>2 DEF InstallInv, Pkg!CommandsOrdered

\* Obeying one: the loop of try_update_binary.
LEMMA ObeyOrder ==
    ASSUME InstallInv, Pkg!ReadCommand
    PROVE  LinesTyped' /\ written' = obeyed' \o pipe'
           /\ IF fw' = Pkg!None THEN \A k \in DOMAIN obeyed' : obeyed'[k].fw = Pkg!None
                                ELSE Pkg!FirstFirmware(obeyed', fw')
<1> DEFINE l == Head(pipe)
<1>1. pipe # <<>> /\ pipe' = Tail(pipe) /\ written' = written /\ obeyed' = Append(obeyed, l)
      /\ fw' = IF l.fw # Pkg!None /\ fw = Pkg!None THEN l.fw ELSE fw
  BY DEF Pkg!ReadCommand, Pkg!Obey
<1>2. l \in AllLines /\ Tail(pipe) \in Seq(AllLines)
  BY <1>1 DEF InstallInv, LinesTyped
<1>3. obeyed \o pipe = Append(obeyed, l) \o Tail(pipe)
  BY <1>1, OneOver DEF InstallInv, LinesTyped
<1> HIDE DEF l
<1>4. LinesTyped' /\ written' = obeyed' \o pipe'
  <2>1. LinesTyped'
    BY <1>1, <1>2 DEF InstallInv, LinesTyped, Pkg!ReadCommand
  <2>2. written = obeyed \o pipe
    BY DEF InstallInv, Pkg!CommandsOrdered
  <2> QED BY <1>1, <1>3, <2>1, <2>2
<1>5. CASE fw # Pkg!None
  <2>1. Pkg!FirstFirmware(obeyed, fw) /\ fw' = fw
    BY <1>1, <1>5 DEF InstallInv, Pkg!CommandsOrdered
  <2>2. Pkg!FirstFirmware(Append(obeyed, l), fw)
    BY <1>2, <2>1, FirstStays DEF InstallInv, LinesTyped
  <2> QED BY <1>1, <1>4, <1>5, <2>1, <2>2
<1>6. CASE fw = Pkg!None
  <2>1. \A k \in DOMAIN obeyed : obeyed[k].fw = Pkg!None
    BY <1>6 DEF InstallInv, Pkg!CommandsOrdered
  <2>2. CASE l.fw = Pkg!None
    <3>1. \A k \in DOMAIN Append(obeyed, l) : Append(obeyed, l)[k].fw = Pkg!None
      BY <1>2, <2>1, <2>2, NoneStays DEF InstallInv, LinesTyped
    <3> QED BY <1>1, <1>4, <1>6, <2>2, <3>1
  <2>3. CASE l.fw # Pkg!None
    <3>1. Pkg!FirstFirmware(Append(obeyed, l), l.fw)
      BY <1>2, <2>1, FirstNew DEF InstallInv, LinesTyped
    <3> QED BY <1>1, <1>4, <1>6, <2>3, <3>1
  <2> QED BY <2>2, <2>3
<1> QED BY <1>5, <1>6

\* One step of the recovery or of the update binary.
LEMMA InstallOrder ==
    ASSUME InstallInv, Pkg!Next
    PROVE  InstallInv'
<1> USE DEF InstallInv
<1>1. (UNCHANGED <<pipe, written, obeyed, fw, pkg>>)
          => LinesTyped' /\ written' = obeyed' \o pipe'
             /\ (IF fw' = Pkg!None THEN \A k \in DOMAIN obeyed' : obeyed'[k].fw = Pkg!None
                                   ELSE Pkg!FirstFirmware(obeyed', fw'))
  BY DEF LinesTyped, Pkg!CommandsOrdered, Pkg!FirstFirmware, Pkg!None
<1>2. CASE Pkg!install_package
  BY <1>1, <1>2 DEF Pkg!install_package, Pkg!CommandsOrdered, Pkg!Ends
<1>3. CASE Pkg!ExtractBinary
  BY <1>1, <1>3 DEF Pkg!ExtractBinary, Pkg!CommandsOrdered, Pkg!Ends
<1>4. CASE Pkg!Fork
  <2>1. written = <<>> /\ pipe' = <<>> /\ UNCHANGED <<written, obeyed, fw>>
    BY <1>4 DEF Pkg!Fork, Pkg!CommandsOrdered
  <2>2. pipe = <<>>
    BY <2>1, OneOver DEF LinesTyped, Pkg!CommandsOrdered
  <2> QED BY <1>1, <1>4, <2>1, <2>2 DEF Pkg!Fork, Pkg!CommandsOrdered
<1>5. CASE Pkg!ReadCommand
  <2>1. cpc # "none" /\ ~pkg.or /\ ppc = "read" /\ result = "none" /\ stored = Pkg!None
    BY <1>5 DEF Pkg!ReadCommand, Pkg!CommandsOrdered, LinesTyped
  <2> QED BY <1>5, <2>1, ObeyOrder DEF Pkg!ReadCommand, Pkg!CommandsOrdered
<1>6. CASE Pkg!EndOfCommands
  BY <1>1, <1>6 DEF Pkg!EndOfCommands, Pkg!CommandsOrdered
<1>7. CASE Pkg!WaitBinary
  BY <1>1, <1>7 DEF Pkg!WaitBinary, Pkg!handle_firmware_update, Pkg!Ends, Pkg!CommandsOrdered
<1>8. CASE Pkg!Clear \/ Pkg!mkdir_recursive \/ Pkg!Unpack \/ Pkg!RunScript \/ Pkg!Sweep
  BY <1>1, <1>8 DEF Pkg!Clear, Pkg!mkdir_recursive, Pkg!Unpack, Pkg!RunScript, Pkg!Sweep,
                    Pkg!Ends, Pkg!CommandsOrdered
<1>9. CASE Pkg!Main
  BY <1>1, <1>9 DEF Pkg!Main, LinesTyped, Pkg!CommandsOrdered
<1>10. CASE Pkg!StartProgram \/ Pkg!ProgramEnds
  BY <1>1, <1>10 DEF Pkg!StartProgram, Pkg!ProgramEnds, Pkg!CommandsOrdered
<1>11. ASSUME NEW l \in AllLines, Pkg!Write(l) PROVE InstallInv'
  <2>1. LinesTyped' /\ written' = obeyed' \o pipe' /\ written' # <<>>
    BY <1>11, WriteOrder DEF Pkg!Write
  <2> QED BY <1>11, <2>1 DEF Pkg!Write, Pkg!CommandsOrdered, Pkg!FirstFirmware, Pkg!None
<1>12. CASE Pkg!BinaryEnds
  <2>1. CASE UNCHANGED <<pipe, written>>
    BY <1>1, <1>12, <2>1 DEF Pkg!BinaryEnds, Pkg!CommandsOrdered
  <2>2. CASE ~UNCHANGED <<pipe, written>>
    <3> DEFINE l == Pkg!Line("ui_print", 0)
    <3>1. l \in AllLines /\ pipe' = Append(pipe, l) /\ written' = Append(written, l)
          /\ UNCHANGED <<obeyed, pkg>>
      BY <1>12, <2>2 DEF Pkg!BinaryEnds, AllLines, Pkg!BinaryLines
    <3>2. LinesTyped' /\ written' = obeyed' \o pipe' /\ written' # <<>>
      BY <3>1, WriteOrder
    <3> HIDE DEF l
    <3> QED BY <1>12, <3>2 DEF Pkg!BinaryEnds, Pkg!CommandsOrdered, Pkg!FirstFirmware, Pkg!None
  <2> QED BY <2>1, <2>2
<1> QED BY <1>2, <1>3, <1>4, <1>5, <1>6, <1>7, <1>8, <1>9, <1>10, <1>11, <1>12
        DEF Pkg!Next, Pkg!Recovery, AllLines

\* The extraction directory, through one step: the steps of handle_or_update
\* one by one; the others leave it alone, and none of them comes to the script.
LEMMA TreeOrder ==
    ASSUME InstallInv, TreeInv, Pkg!Next
    PROVE  TreeInv'
<1> DEFINE Kept == UNCHANGED <<tree, dirs, ignored, pkg>>
<1> USE DEF TreeInv, Pkg!TreeKnown, Pkg!TreeSwept, Pkg!ScriptComplete, Pkg!Installed
<1>1. CASE Pkg!Clear
  BY <1>1 DEF Pkg!Clear, Pkg!rm_rf
<1>2. CASE Pkg!mkdir_recursive
  <2>1. CASE \E i \in DOMAIN dirs : dirs[i] = "file"
    <3>1. tree = {}
      BY <2>1
    <3> QED BY <1>2, <3>1 DEF Pkg!mkdir_recursive, Pkg!Ends
  <2>2. CASE ~\E i \in DOMAIN dirs : dirs[i] = "file"
    BY <1>2, <2>2 DEF Pkg!mkdir_recursive, Pkg!Ends
  <2> QED BY <2>1, <2>2
<1>3. CASE Pkg!Unpack
  BY <1>3 DEF Pkg!Unpack
<1>4. CASE Pkg!RunScript
  BY <1>4 DEF Pkg!RunScript
<1>5. CASE Pkg!Sweep
  BY <1>5 DEF Pkg!Sweep, Pkg!rm_rf, Pkg!Ends
<1>6. CASE Kept /\ (UNCHANGED <<ppc, result>> \/ ppc' \in {"clear", "fork", "extract", "read", "wait"}
                     \/ (ppc' = "done" /\ (~pkg.or \/ result' = "corrupt")))
  BY <1>6
<1>7. CASE Pkg!install_package \/ Pkg!ExtractBinary \/ Pkg!Fork \/ Pkg!EndOfCommands
  BY <1>6, <1>7 DEF Pkg!install_package, Pkg!ExtractBinary, Pkg!Fork, Pkg!EndOfCommands, Pkg!Ends,
                    InstallInv, Pkg!CommandsOrdered
<1>10. CASE Pkg!WaitBinary
  <2>1. Kept /\ ppc = "wait" /\ ppc' = "done"
    BY <1>10, Zenon DEF Pkg!WaitBinary, Pkg!handle_firmware_update, Pkg!Ends
  <2>2. ~pkg.or
    BY <2>1 DEF InstallInv, Pkg!CommandsOrdered
  <2> QED BY <1>6, <2>1, <2>2
<1>8. CASE Pkg!ReadCommand \/ Pkg!Main \/ Pkg!StartProgram \/ Pkg!ProgramEnds \/ Pkg!BinaryEnds
  BY <1>6, <1>8 DEF Pkg!ReadCommand, Pkg!Main, Pkg!StartProgram, Pkg!ProgramEnds, Pkg!BinaryEnds
<1>9. ASSUME NEW l, Pkg!Write(l) PROVE TreeInv'
  BY <1>6, <1>9 DEF Pkg!Write
<1> QED BY <1>1, <1>2, <1>3, <1>4, <1>5, <1>7, <1>8, <1>9, <1>10
        DEF Pkg!Next, Pkg!Recovery

\* The firmware kept for the boot loader is the first that the binary named, and
\* it is kept only after a binary that ended well was read to its end
\* (try_update_binary and handle_firmware_update of install.c); the script of a
\* package with update-or.sh meets the whole package and nothing else, and
\* nothing extracted stays behind, except after those failures of the
\* extraction and of rm -rf that handle_or_update does not look at.
THEOREM InstallStaysSafe == Spec => []InstallSafe
<1>1. Init => InstallInv /\ TreeInv
  <2> SUFFICES ASSUME Init PROVE InstallInv /\ TreeInv
    OBVIOUS
  <2>1. Pkg!Init
    BY DEF Init
  <2>2. pkg.script \in {"good", "missing", "unreadable", "wrong"}
    <3>1. \/ pkg = Pkg!Plain \/ pkg = [Pkg!Plain EXCEPT !.zip = "bad"] \/ pkg = [Pkg!Plain EXCEPT !.or = TRUE]
          \/ \E b \in {"good", "bad"} : pkg = [Pkg!Plain EXCEPT !.binary = b]
          \/ \E x \in {"missing", "unreadable", "wrong"} : pkg = [Pkg!Plain EXCEPT !.script = x]
          \/ \E x \in {"missing", "bad"} : pkg = [Pkg!Plain EXCEPT !.binary = "good", !.image = x]
      BY <2>1, Zenon DEF Pkg!Init, Pkg!Kinds
    <3>2. ASSUME pkg = Pkg!Plain \/ pkg = [Pkg!Plain EXCEPT !.zip = "bad"] \/ pkg = [Pkg!Plain EXCEPT !.or = TRUE]
          PROVE  pkg.script = "good"
      BY <3>2 DEF Pkg!Plain
    <3>3. ASSUME NEW b, pkg = [Pkg!Plain EXCEPT !.binary = b] PROVE pkg.script = "good"
      BY <3>3 DEF Pkg!Plain
    <3>4. ASSUME NEW x, pkg = [Pkg!Plain EXCEPT !.script = x] PROVE pkg.script = x
      BY <3>4 DEF Pkg!Plain
    <3>5. ASSUME NEW x, pkg = [Pkg!Plain EXCEPT !.binary = "good", !.image = x] PROVE pkg.script = "good"
      BY <3>5 DEF Pkg!Plain
    <3> QED BY <3>1, <3>2, <3>3, <3>4, <3>5
  <2>3. LinesTyped /\ written = obeyed \o pipe
    BY <2>1, <2>2 DEF Pkg!Init, LinesTyped
  <2>4. InstallInv
    BY <2>1, <2>3 DEF Pkg!Init, InstallInv, Pkg!CommandsOrdered
  <2>5. TreeInv
    BY <2>1 DEF Pkg!Init, TreeInv, Pkg!TreeKnown, Pkg!TreeSwept, Pkg!ScriptComplete, Pkg!Installed
  <2> QED BY <2>4, <2>5
<1>2. InstallInv /\ TreeInv /\ [Next]_vars => InstallInv' /\ TreeInv'
  <2> SUFFICES ASSUME InstallInv, TreeInv, [Next]_vars PROVE InstallInv' /\ TreeInv'
    OBVIOUS
  <2>1. CASE InstallStep
    BY <2>1, InstallOrder, TreeOrder DEF InstallStep
  <2>2. CASE UNCHANGED ins
    <3>1. InstallInv'
      BY <2>2 DEF ins, InstallInv, LinesTyped, Pkg!CommandsOrdered, Pkg!FirstFirmware, Pkg!None
    <3>2. TreeInv'
      BY <2>2 DEF ins, TreeInv, Pkg!TreeKnown, Pkg!TreeSwept, Pkg!ScriptComplete, Pkg!Installed
    <3> QED BY <3>1, <3>2
  <2> QED BY <2>1, <2>2 DEF Next, VolumeStep, FlashStep, vars, ins
<1>3. InstallInv /\ TreeInv => InstallSafe
  <2> SUFFICES ASSUME InstallInv, TreeInv PROVE InstallSafe
    OBVIOUS
  <2>1. pipe = <<>> => obeyed \o pipe = obeyed
    BY DEF InstallInv, LinesTyped
  <2>2. stored # Pkg!None => cpc = "0" /\ Pkg!FirstFirmware(written, stored)
    BY <2>1 DEF InstallInv, Pkg!CommandsOrdered
  <2>3. (result = "success" /\ ~pkg.or) =>
           /\ obeyed = written
           /\ (\A k \in DOMAIN written : written[k].fw = Pkg!None) <=> stored = Pkg!None
    BY <2>1 DEF InstallInv, Pkg!CommandsOrdered, Pkg!FirstFirmware
  <2>4. Pkg!TreeSwept
    BY DEF TreeInv
  <2> QED BY <2>2, <2>3, <2>4 DEF InstallSafe, Pkg!FirmwareFirst
<1> QED BY <1>1, <1>2, <1>3, PTL DEF Spec


-----------------------------------------------------------------------------
\* The volumes that a table can hold: those of the roots that can be mounted,
\* and the two that are no roots.
Rootfs == Vol!Volume("rootfs", "/")
Vols == {Rootfs, Vol!Volume("other", "/mnt"), Vol!Volume("mtd:cache", "/cache"),
         Vol!Volume("mtd:userdata", "/data"), Vol!Volume("mmcblk0p1", "/sdcard"),
         Vol!Volume("mmcblk0", "/sdcard")}
Table(m) == m \in Seq(Vols) /\ Len(m) > 0 /\ m[1] = Rootfs
Mounted(m, mp) == \E i \in 1 .. Len(m) : m[i].mp = mp
Apart(m) == \A i, j \in 1 .. Len(m) : m[i].mp = m[j].mp => i = j

\* What the operations keep and rely on: the root file system is mounted first
\* and stays busy, so that nothing takes it away.
VolumesInv ==
    /\ Table(mounts) /\ copy \in Seq(Vols \cup {Vol!Gone}) /\ "/" \in busy
    /\ part # "volumes" => ret.op = "none"

\* The state that the calls of an operation hand on.
Calls == [m : {m \in Seq(Vols) : Table(m)}, c : Seq(Vols \cup {Vol!Gone}), ok : BOOLEAN]

-----------------------------------------------------------------------------
\* A set of numbers that is not empty has a least one, one below a bound a
\* greatest one.
LEMMA LeastNumber ==
    ASSUME NEW S \in SUBSET Nat, S # {}
    PROVE  \E x \in S : \A y \in S : x <= y
<1> DEFINE R == OpToRel(<, Nat)
<1>1. IsWellFoundedOn(R, Nat)
  BY NatLessThanWellFounded
<1>2. PICK x \in S : \A y \in S : ~(<<y, x>> \in R)
  <2> HIDE DEF R
  <2> QED BY <1>1, WFMin
<1>3. ASSUME NEW y \in S PROVE x <= y
  <2>1. ~(y < x)
    BY <1>2 DEF OpToRel
  <2> QED BY <2>1
<1> QED BY <1>3

\* A set of numbers with a bound has a greatest one.
LEMMA GreatestNumber ==
    ASSUME NEW n \in Nat, NEW S \in SUBSET (1 .. n), S # {}
    PROVE  \E x \in S : \A y \in S : x >= y
<1> DEFINE T == {n - x : x \in S}
<1>1. T \in SUBSET Nat /\ T # {}
  <2>1. \A x \in S : x \in 1 .. n /\ n - x \in Nat
    OBVIOUS
  <2> QED BY <2>1
<1>2. PICK t \in T : \A u \in T : t <= u
  <2> HIDE DEF T
  <2> QED BY <1>1, LeastNumber
<1>3. PICK x \in S : t = n - x
  OBVIOUS
<1>4. ASSUME NEW y \in S PROVE x >= y
  <2>1. n - x <= n - y
    BY <1>2, <1>3
  <2>2. x \in 1 .. n /\ y \in 1 .. n
    OBVIOUS
  <2> QED BY <2>1, <2>2
<1> QED BY <1>4

\* find_mounted_volume_by_mount_point finds a volume when there is one.
LEMMA Found ==
    ASSUME NEW V, NEW c \in Seq(V), NEW mp
    PROVE  LET f == Vol!find_mounted_volume_by_mount_point(c, mp) IN
           /\ f # 0 <=> Mounted(c, mp)
           /\ f # 0 => f \in 1 .. Len(c)
<1> DEFINE I == {i \in 1 .. Len(c) : c[i].mp = mp}
           f == Vol!find_mounted_volume_by_mount_point(c, mp)
<1>1. f = IF I # {} THEN CHOOSE x \in I : \A y \in I : x =< y ELSE 0
  BY DEF Vol!find_mounted_volume_by_mount_point, Vol!SelectInSeq, Vol!Min
<1>2. I # {} <=> Mounted(c, mp)
  BY DEF Mounted
<1>3. I \in SUBSET Nat /\ I \in SUBSET (1 .. Len(c))
  OBVIOUS
<1>4. I # {} => f \in I
  <2> HIDE DEF I, f
  <2> SUFFICES ASSUME I # {} PROVE f \in I
    OBVIOUS
  <2>1. \E x \in I : \A y \in I : x =< y
    BY <1>3, LeastNumber
  <2> QED BY <1>1, <2>1
<1>5. 0 \notin 1 .. Len(c)
  OBVIOUS
<1> HIDE DEF I, f
<1>6. (f # 0 <=> Mounted(c, mp)) /\ (f # 0 => f \in 1 .. Len(c))
  BY <1>1, <1>2, <1>3, <1>4, <1>5
<1> QED BY <1>6 DEF f

\* An entry taken out of a table leaves the others in their order.
LEMMA Removed ==
    ASSUME NEW V, NEW m \in Seq(V), NEW k \in 1 .. Len(m)
    PROVE  /\ Vol!RemoveAt(m, k) \in Seq(V) /\ Len(Vol!RemoveAt(m, k)) = Len(m) - 1
           /\ \A i \in 1 .. Len(m) - 1 : Vol!RemoveAt(m, k)[i] = IF i < k THEN m[i] ELSE m[i + 1]
<1> DEFINE a == SubSeq(m, 1, k - 1)
           b == SubSeq(m, k + 1, Len(m))
<1>1. /\ a \in Seq(V) /\ Len(a) = k - 1 /\ \A i \in 1 .. k - 1 : a[i] = m[i]
  OBVIOUS
<1>2. /\ b \in Seq(V) /\ Len(b) = Len(m) - k /\ \A i \in 1 .. Len(m) - k : b[i] = m[k + i]
  OBVIOUS
<1>3. Vol!RemoveAt(m, k) = a \o b
  BY DEF Vol!RemoveAt
<1> HIDE DEF a, b
<1>4. a \o b \in Seq(V) /\ Len(a \o b) = Len(m) - 1
  <2>1. a \o b \in Seq(V) /\ Len(a \o b) = Len(a) + Len(b)
    BY <1>1, <1>2, ConcatProperties
  <2>2. k - 1 + (Len(m) - k) = Len(m) - 1
    OBVIOUS
  <2> QED BY <1>1, <1>2, <2>1, <2>2
<1>5. ASSUME NEW i \in 1 .. Len(m) - 1 PROVE (a \o b)[i] = IF i < k THEN m[i] ELSE m[i + 1]
  <2>1. CASE i < k
    BY <1>1, <1>2, <2>1
  <2>2. CASE i >= k
    <3>1. (a \o b)[i] = b[i - (k - 1)] /\ i - (k - 1) \in 1 .. Len(m) - k
      BY <1>1, <1>2, <2>2
    <3>2. b[i - (k - 1)] = m[k + (i - (k - 1))] /\ k + (i - (k - 1)) = i + 1
      BY <1>2, <3>1
    <3> QED BY <2>2, <3>1, <3>2
  <2>3. i < k \/ i >= k
    BY <1>5
  <2> QED BY <2>1, <2>2, <2>3
<1> QED BY <1>3, <1>4, <1>5

\* umount takes an entry with the mount point out of the table.
LEMMA Taken ==
    ASSUME NEW V, NEW m \in Seq(V), NEW mp, Mounted(m, mp)
    PROVE  \E k \in 1 .. Len(m) : m[k].mp = mp /\ Vol!Umounted(m, mp) = Vol!RemoveAt(m, k)
<1> DEFINE I == {i \in 1 .. Len(m) : m[i].mp = mp}
           k == CHOOSE x \in I : \A y \in I : x >= y
<1>1. I # {} /\ I \in SUBSET (1 .. Len(m)) /\ Len(m) \in Nat
  BY DEF Mounted
<1>2. Vol!Umounted(m, mp) = Vol!RemoveAt(m, k)
  BY <1>1 DEF Vol!Umounted, Vol!SelectLastInSeq, Vol!Max
<1>3. k \in I
  <2> HIDE DEF I
  <2>1. \E x \in I : \A y \in I : x >= y
    BY <1>1, GreatestNumber
  <2> QED BY <2>1
<1> QED BY <1>2, <1>3

-----------------------------------------------------------------------------
\* The roots that can be mounted, and the volumes they are mounted as.
LEMMA RootsKnown ==
    /\ \A r \in Vol!Names : Vol!Known(r) <=> r # "CDROM"
    /\ \A r \in Vol!Names : (Vol!Known(r) /\ Vol!Mountable(r)) =>
          /\ Vol!Volume(Vol!MountDevice(r), Vol!g_roots[r].mp) \in Vols
          /\ Vol!g_roots[r].mp \notin {"none", "/"}
    /\ \A r \in Vol!Names : (Vol!Known(r) /\ Vol!Mtd(r)) =>
          \A v \in Vols : v.dev = Vol!g_roots[r].dev => v.mp = Vol!g_roots[r].mp /\ v.mp # "none"
    /\ \A v \in Vols : v.mp # "none"
    /\ {"CACHE", "DATA", "SDCARD", "CDROM"} \subseteq Vol!Names
<1>1. /\ DOMAIN Vol!g_roots = {"BOOT", "CACHE", "DATA", "PACKAGE", "RECOVERY", "SDCARD", "TMP"}
      /\ Vol!g_roots["BOOT"] = Vol!Root("mtd:boot", "none", "none", "raw")
      /\ Vol!g_roots["CACHE"] = Vol!Root("mtd:cache", "none", "/cache", "yaffs2")
      /\ Vol!g_roots["DATA"] = Vol!Root("mtd:userdata", "none", "/data", "yaffs2")
      /\ Vol!g_roots["PACKAGE"] = Vol!Root("none", "none", "none", "package")
      /\ Vol!g_roots["RECOVERY"] = Vol!Root("mtd:recovery", "none", "/", "raw")
      /\ Vol!g_roots["SDCARD"] = Vol!Root("mmcblk0p1", "mmcblk0", "/sdcard", "vfat")
      /\ Vol!g_roots["TMP"] = Vol!Root("none", "none", "/tmp", "none")
  BY DEF Vol!g_roots
<1>2. \A r \in Vol!Names : Vol!Known(r) <=> r # "CDROM"
  BY <1>1 DEF Vol!Names, Vol!Known
<1>3. ASSUME NEW r \in Vol!Names, Vol!Known(r)
      PROVE  r \in {"BOOT", "CACHE", "DATA", "PACKAGE", "RECOVERY", "SDCARD", "TMP"}
  BY <1>1, <1>3 DEF Vol!Known
<1>4. ASSUME NEW r \in Vol!Names, Vol!Known(r), Vol!Mountable(r)
      PROVE  /\ Vol!Volume(Vol!MountDevice(r), Vol!g_roots[r].mp) \in Vols
             /\ Vol!g_roots[r].mp \notin {"none", "/"}
  <2>1. r \in {"CACHE", "DATA", "SDCARD"}
    BY <1>1, <1>3, <1>4 DEF Vol!Mountable, Vol!Mtd, Vol!Root
  <2>2. CASE r = "SDCARD"
    BY <1>1, <2>2 DEF Vol!MountDevice, Vol!Mtd, Vol!Root, Vols
  <2>3. CASE r \in {"CACHE", "DATA"}
    BY <1>1, <2>3 DEF Vol!MountDevice, Vol!Mtd, Vol!Root, Vols
  <2> QED BY <2>1, <2>2, <2>3
<1>5. ASSUME NEW r \in Vol!Names, Vol!Known(r), Vol!Mtd(r), NEW v \in Vols, v.dev = Vol!g_roots[r].dev
      PROVE  v.mp = Vol!g_roots[r].mp /\ v.mp # "none"
  BY <1>1, <1>3, <1>5 DEF Vol!Mtd, Vol!Root, Vols, Rootfs, Vol!Volume
<1>6. \A v \in Vols : v.mp # "none"
  BY DEF Vols, Rootfs, Vol!Volume
<1>7. {"CACHE", "DATA", "SDCARD", "CDROM"} \subseteq Vol!Names
  BY <1>1 DEF Vol!Names
<1> QED BY <1>2, <1>4, <1>5, <1>6, <1>7

\* A scan of a table that fits the buffer is the table.
LEMMA Scanned ==
    ASSUME NEW m \in Seq(Vols)
    PROVE  LET c == Vol!scan_mounted_volumes(m) IN
           /\ c \in Seq(Vols) /\ c \in Seq(Vols \cup {Vol!Gone})
           /\ Len(m) <= BufLines => c = m
           /\ \A mp : Mounted(c, mp) => Mounted(m, mp)
<1> DEFINE n == IF Len(m) < BufLines THEN Len(m) ELSE BufLines
           c == Vol!scan_mounted_volumes(m)
<1>1. n \in 0 .. Len(m) /\ (Len(m) <= BufLines => n = Len(m))
  BY InstallSizes
<1>2. c = SubSeq(m, 1, n)
  BY DEF Vol!scan_mounted_volumes
<1> HIDE DEF n, c
<1>3. c \in Seq(Vols) /\ Len(c) = n /\ \A i \in 1 .. n : c[i] = m[i]
  BY <1>1, <1>2
<1>4. c \in Seq(Vols \cup {Vol!Gone})
  BY <1>3
<1>5. n = Len(m) => c = m
  BY <1>1, <1>3
<1>6. \A mp : Mounted(c, mp) => Mounted(m, mp)
  BY <1>1, <1>3 DEF Mounted
<1>7. /\ c \in Seq(Vols) /\ c \in Seq(Vols \cup {Vol!Gone})
      /\ Len(m) <= BufLines => c = m
      /\ \A mp : Mounted(c, mp) => Mounted(m, mp)
  BY <1>1, <1>3, <1>4, <1>5, <1>6
<1> QED BY <1>7 DEF c

\* A volume at the end of a table in which its mount point is free.
LEMMA Appended ==
    ASSUME NEW m \in Seq(Vols), Table(m), NEW v \in Vols
    PROVE  /\ Table(Append(m, v)) /\ Len(Append(m, v)) = Len(m) + 1
           /\ Mounted(Append(m, v), v.mp)
           /\ Apart(m) /\ ~Mounted(m, v.mp) => Apart(Append(m, v))
<1> DEFINE a == Append(m, v)
<1>1. a \in Seq(Vols) /\ Len(a) = Len(m) + 1 /\ a[Len(m) + 1] = v /\ \A i \in 1 .. Len(m) : a[i] = m[i]
  OBVIOUS
<1>2. Len(m) \in Nat
  OBVIOUS
<1> HIDE DEF a
<1>3. Table(a) /\ Mounted(a, v.mp)
  BY <1>1, <1>2 DEF Table, Mounted
<1>4. ASSUME Apart(m), ~Mounted(m, v.mp) PROVE Apart(a)
  <2> SUFFICES ASSUME NEW i \in 1 .. Len(m) + 1, NEW j \in 1 .. Len(m) + 1, a[i].mp = a[j].mp PROVE i = j
    BY <1>1 DEF Apart
  <2>1. i \in 1 .. Len(m) \/ i = Len(m) + 1
    BY <1>2
  <2>2. j \in 1 .. Len(m) \/ j = Len(m) + 1
    BY <1>2
  <2> QED BY <1>1, <1>4, <2>1, <2>2 DEF Apart, Mounted
<1> QED BY <1>1, <1>3, <1>4 DEF a

-----------------------------------------------------------------------------
\* ensure_root_path_mounted: a root that is reported as mounted is in the table,
\* and nothing is mounted over a mounted root that the scan could see.
LEMMA MountCall ==
    ASSUME NEW s \in Calls, NEW r \in Vol!Names
    PROVE  LET t == Vol!ensure_mounted(s, r) IN
           /\ t \in Calls /\ Len(t.m) >= Len(s.m) /\ (t.ok => s.ok)
           /\ t.ok => Vol!Known(r) /\ Mounted(t.m, Vol!g_roots[r].mp)
           /\ Apart(s.m) /\ Len(t.m) <= BufLines => Apart(t.m)
<1> DEFINE mp == Vol!g_roots[r].mp
           c == Vol!scan_mounted_volumes(s.m)
           v == Vol!Volume(Vol!MountDevice(r), mp)
           t == Vol!ensure_mounted(s, r)
           Right == /\ t \in Calls /\ Len(t.m) >= Len(s.m) /\ (t.ok => s.ok)
                    /\ t.ok => Vol!Known(r) /\ Mounted(t.m, mp)
                    /\ Apart(s.m) /\ Len(t.m) <= BufLines => Apart(t.m)
<1> SUFFICES Right
  OBVIOUS
<1>1. /\ s.m \in Seq(Vols) /\ Table(s.m) /\ s.c \in Seq(Vols \cup {Vol!Gone}) /\ s.ok \in BOOLEAN
      /\ s = [m |-> s.m, c |-> s.c, ok |-> s.ok] /\ Len(s.m) \in Nat
  BY DEF Calls
<1>2. /\ c \in Seq(Vols) /\ c \in Seq(Vols \cup {Vol!Gone})
      /\ Len(s.m) <= BufLines => c = s.m
      /\ Mounted(c, mp) => Mounted(s.m, mp)
  <2> HIDE DEF mp
  <2> QED BY <1>1, Scanned
<1>3. Vol!find_mounted_volume_by_mount_point(c, mp) # 0 <=> Mounted(c, mp)
  <2> HIDE DEF mp, c
  <2> QED BY <1>2, Found
<1>4. \A n \in BOOLEAN, k \in Seq(Vols \cup {Vol!Gone}) : [m |-> s.m, c |-> k, ok |-> n] \in Calls
  BY <1>1 DEF Calls
<1>5. CASE ~Vol!Known(r)
  <2>1. t = [m |-> s.m, c |-> s.c, ok |-> FALSE]
    BY <1>1, <1>5 DEF Vol!ensure_mounted
  <2> HIDE DEF t
  <2>2. t \in Calls /\ t.m = s.m /\ ~t.ok
    BY <1>1, <1>4, <2>1
  <2> QED BY <1>1, <2>2
<1>6. CASE Vol!Known(r) /\ mp # "none" /\ Mounted(c, mp)
  <2>1. t = [m |-> s.m, c |-> c, ok |-> s.ok]
    BY <1>1, <1>3, <1>6 DEF Vol!ensure_mounted
  <2> HIDE DEF t
  <2>2. t \in Calls /\ t.m = s.m /\ t.ok = s.ok
    BY <1>1, <1>2, <1>4, <2>1
  <2> QED BY <1>1, <1>2, <1>6, <2>2
<1>7. CASE Vol!Known(r) /\ ~(mp # "none" /\ Mounted(c, mp))
  <2> DEFINE k == IF mp = "none" THEN s.c ELSE c
  <2>1. t = IF Vol!Mountable(r) THEN [m |-> Append(s.m, v), c |-> k, ok |-> s.ok]
                                ELSE [m |-> s.m, c |-> k, ok |-> FALSE]
    <3> DEFINE w == [m |-> s.m, c |-> k, ok |-> s.ok]
    <3>1. w = IF mp = "none" THEN s ELSE [s EXCEPT !.c = c]
      BY <1>1
    <3>2. t = Vol!mtd_mount_partition(w, r)
      <4>1. ~(mp # "none" /\ Vol!find_mounted_volume_by_mount_point(w.c, mp) # 0)
        BY <1>3, <1>7
      <4> QED BY <1>7, <3>1, <4>1 DEF Vol!ensure_mounted
    <3> QED BY <3>2 DEF Vol!mtd_mount_partition
  <2>2. k \in Seq(Vols \cup {Vol!Gone})
    BY <1>1, <1>2
  <2> HIDE DEF t, k
  <2>3. CASE ~Vol!Mountable(r)
    <3>1. t \in Calls /\ t.m = s.m /\ ~t.ok
      BY <1>4, <2>1, <2>2, <2>3
    <3> QED BY <1>1, <3>1
  <2>4. CASE Vol!Mountable(r)
    <3>1. v \in Vols /\ mp # "none" /\ v.mp = mp
      BY <1>7, <2>4, RootsKnown DEF Vol!Volume
    <3> HIDE DEF v
    <3>2. /\ Table(Append(s.m, v)) /\ Len(Append(s.m, v)) = Len(s.m) + 1
          /\ Mounted(Append(s.m, v), mp)
          /\ Apart(s.m) /\ ~Mounted(s.m, mp) => Apart(Append(s.m, v))
      BY <1>1, <3>1, Appended
    <3>3. t.m = Append(s.m, v) /\ t.ok = s.ok /\ t \in Calls
      BY <1>1, <2>1, <2>2, <2>4, <3>2 DEF Calls, Table
    <3>4. Len(t.m) <= BufLines => ~Mounted(s.m, mp)
      <4>1. Len(t.m) <= BufLines => Len(s.m) <= BufLines
        BY <1>1, <3>2, <3>3, InstallSizes
      <4> QED BY <1>2, <1>7, <3>1, <4>1
    <3>5. Len(t.m) >= Len(s.m)
      BY <1>1, <3>2, <3>3
    <3> QED BY <1>7, <3>2, <3>3, <3>4, <3>5
  <2> QED BY <2>3, <2>4
<1> QED BY <1>5, <1>6, <1>7

\* ensure_root_path_unmounted: it keeps the root file system, and a table that
\* the scan could see and that had no mount over another has nothing left there.
LEMMA UnmountCall ==
    ASSUME NEW s \in Calls, NEW r \in Vol!Names, "/" \in busy
    PROVE  LET t == Vol!ensure_unmounted(s, r) IN
           /\ t \in Calls /\ (t.ok => s.ok)
           /\ Apart(s.m) => Apart(t.m)
           /\ (t.ok /\ Apart(s.m) /\ Len(s.m) <= BufLines /\ Vol!g_roots[r].mp # "none") =>
                ~Mounted(t.m, Vol!g_roots[r].mp)
<1> DEFINE mp == Vol!g_roots[r].mp
           c == Vol!scan_mounted_volumes(s.m)
           at == Vol!find_mounted_volume_by_mount_point(c, mp)
           t == Vol!ensure_unmounted(s, r)
           Right == /\ t \in Calls /\ (t.ok => s.ok)
                    /\ Apart(s.m) => Apart(t.m)
                    /\ (t.ok /\ Apart(s.m) /\ Len(s.m) <= BufLines /\ mp # "none") =>
                         ~Mounted(t.m, mp)
<1> SUFFICES Right
  OBVIOUS
<1>1. /\ s.m \in Seq(Vols) /\ Table(s.m) /\ s.c \in Seq(Vols \cup {Vol!Gone}) /\ s.ok \in BOOLEAN
      /\ s = [m |-> s.m, c |-> s.c, ok |-> s.ok] /\ Len(s.m) \in Nat
  BY DEF Calls
<1>2. /\ c \in Seq(Vols) /\ c \in Seq(Vols \cup {Vol!Gone})
      /\ Len(s.m) <= BufLines => c = s.m
      /\ Mounted(c, mp) => Mounted(s.m, mp)
  <2> HIDE DEF mp
  <2> QED BY <1>1, Scanned
<1>3. (at # 0 <=> Mounted(c, mp)) /\ (at # 0 => at \in 1 .. Len(c))
  <2> HIDE DEF mp, c
  <2> QED BY <1>2, Found
<1>4. \A n \in BOOLEAN, k \in Seq(Vols \cup {Vol!Gone}) : [m |-> s.m, c |-> k, ok |-> n] \in Calls
  BY <1>1 DEF Calls
<1>5. CASE ~Vol!Known(r)
  <2>1. t = [m |-> s.m, c |-> s.c, ok |-> FALSE]
    BY <1>1, <1>5 DEF Vol!ensure_unmounted
  <2> HIDE DEF t
  <2>2. t \in Calls /\ t.m = s.m /\ ~t.ok
    BY <1>1, <1>4, <2>1
  <2> QED BY <1>1, <2>2
<1>6. CASE Vol!Known(r) /\ mp = "none"
  <2>1. t = s
    BY <1>6 DEF Vol!ensure_unmounted
  <2> HIDE DEF t
  <2> QED BY <1>1, <1>6, <2>1
<1>7. CASE Vol!Known(r) /\ mp # "none" /\ at = 0
  <2>1. t = [m |-> s.m, c |-> c, ok |-> s.ok]
    BY <1>1, <1>7 DEF Vol!ensure_unmounted
  <2> HIDE DEF t
  <2>2. t \in Calls /\ t.m = s.m /\ t.ok = s.ok
    BY <1>1, <1>2, <1>4, <2>1
  <2> QED BY <1>2, <1>3, <1>7, <2>2
<1>8. CASE Vol!Known(r) /\ mp # "none" /\ at # 0 /\ mp \in busy
  <2>1. t = [m |-> s.m, c |-> c, ok |-> FALSE]
    BY <1>1, <1>8 DEF Vol!ensure_unmounted
  <2> HIDE DEF t
  <2>2. t \in Calls /\ t.m = s.m /\ ~t.ok
    BY <1>2, <1>4, <2>1
  <2> QED BY <1>1, <2>2
<1>9. CASE Vol!Known(r) /\ mp # "none" /\ at # 0 /\ mp \notin busy
  <2> DEFINE u == Vol!Umounted(s.m, mp)
             d == [c EXCEPT ![at] = Vol!Gone]
  <2>1. t = [m |-> u, c |-> d, ok |-> s.ok]
    BY <1>1, <1>9 DEF Vol!ensure_unmounted
  <2>2. d \in Seq(Vols \cup {Vol!Gone})
    <3> HIDE DEF c, at
    <3> QED BY <1>2, <1>3, <1>9
  <2> HIDE DEF t, d
  <2>3. PICK k \in 1 .. Len(s.m) : s.m[k].mp = mp /\ u = Vol!RemoveAt(s.m, k)
    <3> HIDE DEF mp
    <3> QED BY <1>1, <1>2, <1>3, <1>9, Taken
  <2>4. /\ u \in Seq(Vols) /\ Len(u) = Len(s.m) - 1
        /\ \A i \in 1 .. Len(s.m) - 1 : u[i] = IF i < k THEN s.m[i] ELSE s.m[i + 1]
    BY <1>1, <2>3, Removed
  <2>5. s.m[1].mp = "/" /\ mp # "/"
    BY <1>1, <1>9 DEF Table, Rootfs, Vol!Volume
  <2> HIDE DEF u, mp
  <2>6. Table(u)
    <3>1. k # 1
      BY <2>3, <2>5
    <3>2. Len(s.m) - 1 > 0 /\ 1 \in 1 .. Len(s.m) - 1 /\ 1 < k
      BY <1>1, <2>3, <3>1
    <3> QED BY <1>1, <2>4, <3>2 DEF Table
  <2>7. t \in Calls /\ t.m = u /\ t.ok = s.ok
    BY <1>1, <2>1, <2>2, <2>4, <2>6 DEF Calls
  <2>8. ASSUME Apart(s.m), NEW i \in 1 .. Len(s.m) - 1, NEW j \in 1 .. Len(s.m) - 1, u[i].mp = u[j].mp PROVE i = j
    <3> DEFINE a == IF i < k THEN i ELSE i + 1
               b == IF j < k THEN j ELSE j + 1
    <3>1. a \in 1 .. Len(s.m) /\ b \in 1 .. Len(s.m) /\ (a = b => i = j)
      BY <1>1, <2>3
    <3>2. u[i] = s.m[a] /\ u[j] = s.m[b]
      BY <2>4
    <3> HIDE DEF a, b
    <3> QED BY <2>8, <3>1, <3>2 DEF Apart
  <2>9. ASSUME Apart(s.m), NEW i \in 1 .. Len(s.m) - 1, u[i].mp = mp PROVE FALSE
    <3> DEFINE a == IF i < k THEN i ELSE i + 1
    <3>1. a \in 1 .. Len(s.m) /\ a # k
      BY <1>1, <2>3
    <3>2. u[i] = s.m[a]
      BY <2>4
    <3> HIDE DEF a
    <3> QED BY <2>3, <2>9, <3>1, <3>2 DEF Apart
  <2>10. (Apart(s.m) => Apart(u)) /\ (Apart(s.m) => ~Mounted(u, mp))
    BY <2>4, <2>8, <2>9 DEF Apart, Mounted
  <2> QED BY <2>7, <2>10
<1> QED BY <1>5, <1>6, <1>7, <1>8, <1>9

-----------------------------------------------------------------------------
\* What one step may do to the volumes.
VolumesTold == Vol!NeverStacks /\ Vol!FormatOnlyUnmounted /\ Vol!MountTold'

\* The properties in the terms of the lemmas.
LEMMA InTheseTerms ==
    ASSUME Table(mounts), Table(mounts')
    PROVE  /\ (Vol!Stacked <=> ~Apart(mounts)) /\ (Vol!Stacked' <=> ~Apart(mounts'))
           /\ \A mp : (\E v \in Vol!ToSet(mounts') : v.mp = mp) <=> Mounted(mounts', mp)
           /\ \A v \in Vol!ToSet(mounts') : v \in Vols /\ Mounted(mounts', v.mp)
<1>1. DOMAIN mounts = 1 .. Len(mounts) /\ DOMAIN mounts' = 1 .. Len(mounts')
  BY DEF Table
<1>2. (Vol!Stacked <=> ~Apart(mounts)) /\ (Vol!Stacked' <=> ~Apart(mounts'))
  BY <1>1 DEF Vol!Stacked, Apart
<1>3. Vol!ToSet(mounts') = {mounts'[i] : i \in 1 .. Len(mounts')}
  BY <1>1 DEF Vol!ToSet
<1>4. \A i \in 1 .. Len(mounts') : mounts'[i] \in Vols
  BY DEF Table
<1> QED BY <1>2, <1>3, <1>4 DEF Mounted

\* A step that leaves the table alone and reports neither a mount nor a format.
LEMMA TableKept ==
    ASSUME VolumesInv, mounts' = mounts, ret'.op \notin {"mount", "format"}
    PROVE  VolumesTold /\ Table(mounts')
<1>1. Vol!Stacked' <=> Vol!Stacked
  BY DEF Vol!Stacked
<1> QED BY <1>1 DEF VolumesTold, VolumesInv, Vol!NeverStacks, Vol!FormatOnlyUnmounted, Vol!MountTold

\* ScriptMount, of which nothing is promised.
LEMMA ScriptsKeep ==
    ASSUME VolumesInv, Vol!ScriptMount
    PROVE  VolumesTold /\ Table(mounts')
<1>1. Table(mounts) /\ ret'.op = "script" /\ mounts \in Seq(Vols)
  BY DEF VolumesInv, Vol!ScriptMount, Vol!Returns, Table
<1>2. VolumesTold
  BY <1>1 DEF VolumesTold, Vol!NeverStacks, Vol!FormatOnlyUnmounted, Vol!MountTold
<1>3. \A r \in {"CACHE", "SDCARD"} : /\ Vol!Volume(Vol!g_roots[r].dev, Vol!g_roots[r].mp) \in Vols
                                     /\ Vol!g_roots[r].mp # "/"
  BY DEF Vol!g_roots, Vol!Root, Vols
<1>4. ASSUME NEW r \in {"CACHE", "SDCARD"}, mounts' = Append(mounts, Vol!Volume(Vol!g_roots[r].dev, Vol!g_roots[r].mp))
      PROVE  Table(mounts')
  BY <1>1, <1>3, <1>4, Appended
<1>5. ASSUME mounts' = <<Head(mounts)>> \o <<Vol!Volume("other", "/mnt")>> \o Tail(mounts)
      PROVE  Table(mounts')
  <2>1. Head(mounts) = Rootfs /\ Tail(mounts) \in Seq(Vols) /\ Vol!Volume("other", "/mnt") \in Vols
    BY <1>1 DEF Table, Vols
  <2> DEFINE v == Vol!Volume("other", "/mnt")
             a == <<Rootfs>> \o <<v>>
  <2>2. <<Rootfs>> \in Seq(Vols) /\ <<v>> \in Seq(Vols) /\ Len(<<Rootfs>>) = 1 /\ Len(<<v>>) = 1
    BY <2>1 DEF Vols
  <2>3. a \in Seq(Vols) /\ Len(a) = 2 /\ a[1] = Rootfs
    <3> HIDE DEF v
    <3> QED BY <2>2, ConcatProperties
  <2>4. mounts' = a \o Tail(mounts)
    BY <1>5, <2>1
  <2> HIDE DEF a
  <2>5. mounts' \in Seq(Vols) /\ Len(mounts') = 2 + Len(Tail(mounts)) /\ mounts'[1] = Rootfs
    <3> DEFINE b == Tail(mounts)
    <3>1. b \in Seq(Vols) /\ Len(b) \in Nat
      BY <2>1
    <3> HIDE DEF b
    <3>2. /\ a \o b \in Seq(Vols) /\ Len(a \o b) = Len(a) + Len(b)
          /\ \A i \in 1 .. Len(a) + Len(b) : (a \o b)[i] = IF i <= Len(a) THEN a[i] ELSE b[i - Len(a)]
      BY <2>3, <3>1, ConcatProperties
    <3>3. 1 \in 1 .. 2 + Len(b)
      BY <3>1
    <3>4. (a \o b)[1] = Rootfs
      BY <2>3, <3>2, <3>3
    <3> QED BY <2>3, <2>4, <3>2, <3>4 DEF b
  <2>6. Len(mounts') > 0
    BY <2>1, <2>5
  <2> QED BY <2>5, <2>6 DEF Table
<1>6. ASSUME NEW r \in {"CACHE", "SDCARD"},
             Vol!find_mounted_volume_by_mount_point(mounts, Vol!g_roots[r].mp) # 0,
             mounts' = Vol!Umounted(mounts, Vol!g_roots[r].mp)
      PROVE  Table(mounts')
  <2> DEFINE mp == Vol!g_roots[r].mp
  <2>1. mp # "/"
    BY <1>3
  <2> HIDE DEF mp
  <2>2. Mounted(mounts, mp)
    BY <1>1, <1>6, Found DEF mp
  <2>3. PICK k \in 1 .. Len(mounts) : mounts[k].mp = mp /\ mounts' = Vol!RemoveAt(mounts, k)
    BY <1>1, <1>6, <2>2, Taken DEF mp
  <2>4. mounts[1].mp = "/"
    BY <1>1 DEF Table, Rootfs, Vol!Volume
  <2>5. k > 1 /\ Len(mounts) > 1 /\ Len(mounts) \in Nat
    <3>1. k # 1
      BY <2>1, <2>3, <2>4
    <3> QED BY <1>1, <2>3, <3>1
  <2>6. mounts' \in Seq(Vols) /\ Len(mounts') = Len(mounts) - 1 /\ mounts'[1] = mounts[1]
    <3>1. /\ mounts' \in Seq(Vols) /\ Len(mounts') = Len(mounts) - 1
          /\ \A i \in 1 .. Len(mounts) - 1 : mounts'[i] = IF i < k THEN mounts[i] ELSE mounts[i + 1]
      BY <1>1, <2>3, Removed
    <3>2. 1 \in 1 .. Len(mounts) - 1 /\ 1 < k
      BY <2>5
    <3> QED BY <3>1, <3>2
  <2> QED BY <1>1, <2>5, <2>6 DEF Table
<1> QED BY <1>2, <1>4, <1>5, <1>6 DEF Vol!ScriptMount

\* The operations of the recovery.
LEMMA VolumeCalls ==
    ASSUME VolumesInv, Vol!Next
    PROVE  VolumesTold /\ Table(mounts') /\ copy' \in Seq(Vols \cup {Vol!Gone}) /\ busy' = busy
<1> DEFINE Copies == Seq(Vols \cup {Vol!Gone})
<1>1. Table(mounts) /\ "/" \in busy /\ Vol!Now \in Calls /\ copy \in Copies
      /\ Vol!Now.m = mounts /\ Vol!Now.c = copy /\ Vol!Now.ok
  BY DEF VolumesInv, Vol!Now, Calls, Table
<1>2. ASSUME NEW s \in Calls, mounts' = s.m, copy' = s.c
      PROVE  Table(mounts') /\ copy' \in Copies
  BY <1>2 DEF Calls
<1> HIDE DEF Copies
<1>3. ASSUME NEW r \in Vol!Names, Vol!ensure_root_path_mounted(r)
      PROVE  VolumesTold /\ Table(mounts') /\ copy' \in Copies /\ busy' = busy
  <2> DEFINE s == Vol!ensure_mounted(Vol!Now, r)
  <2>1. /\ mounts' = s.m /\ copy' = s.c /\ busy' = busy
        /\ ret' = [op |-> "mount", root |-> r, val |-> s.ok]
    BY <1>3 DEF Vol!ensure_root_path_mounted, Vol!Returns
  <2>2. /\ s \in Calls
        /\ s.ok => Mounted(s.m, Vol!g_roots[r].mp)
        /\ Apart(mounts) /\ Len(s.m) <= BufLines => Apart(s.m)
    BY <1>1, MountCall
  <2> HIDE DEF s
  <2>3. Table(mounts') /\ copy' \in Copies
    BY <1>2, <2>1, <2>2
  <2>4. ret'.op = "mount" /\ ret'.root = r /\ ret'.val = s.ok
    BY <2>1
  <2>5. Vol!NeverStacks /\ Vol!FormatOnlyUnmounted
    BY <1>1, <2>1, <2>2, <2>3, <2>4, InTheseTerms DEF Vol!NeverStacks, Vol!FormatOnlyUnmounted
  <2>6. Vol!MountTold'
    BY <1>1, <2>1, <2>2, <2>3, <2>4, InTheseTerms DEF Vol!MountTold
  <2> QED BY <2>1, <2>3, <2>5, <2>6 DEF VolumesTold
<1>4. ASSUME NEW r \in Vol!Names, Vol!ensure_root_path_unmounted(r)
      PROVE  VolumesTold /\ Table(mounts') /\ copy' \in Copies /\ busy' = busy
  <2> DEFINE s == Vol!ensure_unmounted(Vol!Now, r)
  <2>1. /\ mounts' = s.m /\ copy' = s.c /\ busy' = busy
        /\ ret'.op = "unmount"
    BY <1>4 DEF Vol!ensure_root_path_unmounted, Vol!Returns
  <2>2. s \in Calls /\ (Apart(mounts) => Apart(s.m))
    BY <1>1, UnmountCall
  <2> HIDE DEF s
  <2>3. Table(mounts') /\ copy' \in Copies
    BY <1>2, <2>1, <2>2
  <2>4. Vol!NeverStacks
    BY <1>1, <2>1, <2>2, <2>3, InTheseTerms DEF Vol!NeverStacks
  <2> QED BY <2>1, <2>3, <2>4 DEF VolumesTold, Vol!FormatOnlyUnmounted, Vol!MountTold
<1>5. ASSUME NEW r \in Vol!Names, Vol!is_root_path_mounted(r)
      PROVE  VolumesTold /\ Table(mounts') /\ copy' \in Copies /\ busy' = busy
  <2>1. mounts' = mounts /\ ret'.op = "is mounted" /\ busy' = busy /\ copy' = Vol!scan_mounted_volumes(mounts)
    BY <1>5 DEF Vol!is_root_path_mounted, Vol!Returns
  <2>2. copy' \in Copies
    BY <1>1, <2>1, Scanned DEF Copies, Table
  <2> QED BY <2>1, <2>2, TableKept
<1>6. ASSUME NEW r \in Vol!Names, Vol!format_root_device(r)
      PROVE  VolumesTold /\ Table(mounts') /\ copy' \in Copies /\ busy' = busy
  <2> DEFINE far == Vol!Known(r) /\ Vol!g_roots[r].dev # "none" /\ Vol!g_roots[r].mp # "none"
             mp == Vol!g_roots[r].mp
             u == Vol!ensure_unmounted(Vol!Now, r)
             s == IF far THEN u ELSE Vol!Now
  <2>1. /\ mounts' = s.m /\ copy' = s.c /\ busy' = busy
        /\ ret' = [op |-> "format", root |-> r, val |-> Vol!Known(r) /\ Vol!Mtd(r) /\ s.ok]
    BY <1>6 DEF Vol!format_root_device, Vol!Returns
  <2>2. /\ u \in Calls /\ (Apart(mounts) => Apart(u.m))
        /\ (u.ok /\ Apart(mounts) /\ Len(mounts) <= BufLines /\ mp # "none") => ~Mounted(u.m, mp)
    BY <1>1, UnmountCall
  <2> HIDE DEF u
  <2>3. s \in Calls /\ (Apart(mounts) => Apart(s.m))
    BY <1>1, <2>2
  <2>4. Table(mounts') /\ copy' \in Copies
    <3> HIDE DEF s
    <3> QED BY <1>2, <2>1, <2>3
  <2>5. ret'.op = "format" /\ ret'.root = r /\ (ret'.val => Vol!Known(r) /\ Vol!Mtd(r) /\ s.ok)
    BY <2>1
  <2>6. Vol!NeverStacks
    <3> HIDE DEF s
    <3> QED BY <1>1, <2>1, <2>3, <2>4, InTheseTerms DEF Vol!NeverStacks
  <2>7. ASSUME ret'.val, Len(mounts) <= BufLines, Apart(mounts), NEW v \in Vol!ToSet(mounts'),
               v.dev = Vol!g_roots[r].dev
        PROVE  FALSE
    <3>1. Vol!Known(r) /\ Vol!Mtd(r) /\ s.ok
      BY <2>5, <2>7
    <3>2. v \in Vols /\ Mounted(mounts', v.mp)
      BY <1>1, <2>4, InTheseTerms
    <3>3. v.mp = mp /\ mp # "none"
      BY <2>7, <3>1, <3>2, RootsKnown
    <3>4. Vol!g_roots[r].dev # "none"
      BY <3>1 DEF Vol!Mtd
    <3>5. far
      BY <3>1, <3>3, <3>4
    <3> HIDE DEF mp, far
    <3> QED BY <2>1, <2>2, <2>7, <3>1, <3>2, <3>3, <3>5
  <2>8. Vol!FormatOnlyUnmounted
    <3> HIDE DEF s
    <3> QED BY <1>1, <2>4, <2>5, <2>7, InTheseTerms DEF Vol!FormatOnlyUnmounted
  <2> QED BY <2>1, <2>4, <2>5, <2>6, <2>8 DEF VolumesTold, Vol!MountTold
<1>7. CASE Vol!ensure_common_roots_mounted
  <2> DEFINE a == Vol!ensure_mounted(Vol!Now, "SDCARD")
             b == Vol!ensure_mounted(a, "DATA")
             c == Vol!ensure_mounted(b, "CACHE")
             s == Vol!ensure_mounted(c, "CDROM")
  <2>1. /\ mounts' = s.m /\ copy' = s.c /\ busy' = busy
        /\ ret'.op = "mount all"
    BY <1>7 DEF Vol!ensure_common_roots_mounted, Vol!Returns
  <2>2. /\ a \in Calls /\ Len(a.m) >= Len(mounts) /\ (Apart(mounts) /\ Len(a.m) <= BufLines => Apart(a.m))
    BY <1>1, MountCall, RootsKnown
  <2> HIDE DEF a
  <2>3. /\ b \in Calls /\ Len(b.m) >= Len(a.m) /\ (Apart(a.m) /\ Len(b.m) <= BufLines => Apart(b.m))
    BY <2>2, MountCall, RootsKnown
  <2> HIDE DEF b
  <2>4. /\ c \in Calls /\ Len(c.m) >= Len(b.m) /\ (Apart(b.m) /\ Len(c.m) <= BufLines => Apart(c.m))
    BY <2>3, MountCall, RootsKnown
  <2> HIDE DEF c
  <2>5. /\ s \in Calls /\ Len(s.m) >= Len(c.m) /\ (Apart(c.m) /\ Len(s.m) <= BufLines => Apart(s.m))
    BY <2>4, MountCall, RootsKnown
  <2> HIDE DEF s
  <2>6. Table(mounts') /\ copy' \in Copies
    BY <1>2, <2>1, <2>5
  <2>7. Len(a.m) \in Nat /\ Len(b.m) \in Nat /\ Len(c.m) \in Nat /\ Len(s.m) \in Nat
    BY <2>2, <2>3, <2>4, <2>5 DEF Calls
  <2>8. Len(s.m) <= BufLines => Len(a.m) <= BufLines /\ Len(b.m) <= BufLines /\ Len(c.m) <= BufLines
    BY <2>3, <2>4, <2>5, <2>7, InstallSizes
  <2>9. Apart(mounts) /\ Len(s.m) <= BufLines => Apart(s.m)
    BY <2>2, <2>3, <2>4, <2>5, <2>8
  <2>10. Vol!NeverStacks
    BY <1>1, <2>1, <2>6, <2>9, InTheseTerms DEF Vol!NeverStacks
  <2> QED BY <2>1, <2>6, <2>10 DEF Copies, VolumesTold, Vol!FormatOnlyUnmounted, Vol!MountTold
<1>8. CASE Vol!ensure_common_roots_unmounted
  <2> DEFINE a == Vol!ensure_unmounted(Vol!Now, "SDCARD")
             b == Vol!ensure_unmounted(a, "DATA")
             s == Vol!ensure_unmounted(b, "CDROM")
  <2>1. /\ mounts' = s.m /\ copy' = s.c /\ busy' = busy
        /\ ret'.op = "unmount all"
    BY <1>8 DEF Vol!ensure_common_roots_unmounted, Vol!Returns
  <2>2. a \in Calls /\ (Apart(mounts) => Apart(a.m))
    BY <1>1, UnmountCall, RootsKnown
  <2> HIDE DEF a
  <2>3. b \in Calls /\ (Apart(a.m) => Apart(b.m))
    BY <1>1, <2>2, UnmountCall, RootsKnown
  <2> HIDE DEF b
  <2>4. s \in Calls /\ (Apart(b.m) => Apart(s.m))
    BY <1>1, <2>3, UnmountCall, RootsKnown
  <2> HIDE DEF s
  <2>5. Table(mounts') /\ copy' \in Copies
    BY <1>2, <2>1, <2>4
  <2>6. Vol!NeverStacks
    BY <1>1, <2>1, <2>2, <2>3, <2>4, <2>5, InTheseTerms DEF Vol!NeverStacks
  <2> QED BY <2>1, <2>5, <2>6 DEF Copies, VolumesTold, Vol!FormatOnlyUnmounted, Vol!MountTold
<1>9. CASE Vol!register_package_root("zip") \/ Vol!register_package_root("none")
           \/ Vol!translate_package_root_path
  <2>1. mounts' = mounts /\ copy' = copy /\ busy' = busy /\ ret'.op \in {"register", "translate"}
    BY <1>9 DEF Vol!register_package_root, Vol!translate_package_root_path, Vol!Returns
  <2> QED BY <1>1, <2>1, TableKept DEF Copies
<1>10. CASE Vol!ScriptMount
  <2>1. copy' = copy /\ busy' = busy
    BY <1>10 DEF Vol!ScriptMount
  <2> QED BY <1>1, <1>10, <2>1, ScriptsKeep DEF Copies
<1> QED BY <1>3, <1>4, <1>5, <1>6, <1>7, <1>8, <1>9, <1>10 DEF Vol!Next, Copies

\* A root is never mounted over a mounted one, a partition never formatted under
\* a mounted volume, and a root that is reported as mounted is mounted (roots.c),
\* whatever the scripts mount: while the table of /proc/mounts fits into the
\* buffer that mounts.c reads it into.
THEOREM VolumesStaySafe == Spec => VolumesSafe
<1>1. Init => VolumesInv
  <2> SUFFICES ASSUME Init PROVE VolumesInv
    OBVIOUS
  <2>1. mounts = <<Rootfs>> /\ copy = <<>> /\ "/" \in busy /\ ret.op = "none"
    BY DEF Init, Vol!Init, Rootfs
  <2> QED BY <2>1 DEF VolumesInv, Table, Vols
<1>2. VolumesInv /\ [Next]_vars => VolumesInv' /\ [VolumesTold]_vars
  <2> SUFFICES ASSUME VolumesInv, [Next]_vars PROVE VolumesInv' /\ [VolumesTold]_vars
    OBVIOUS
  <2>1. CASE VolumeStep
    BY <2>1, VolumeCalls DEF VolumeStep, VolumesInv
  <2>2. CASE InstallStep \/ FlashStep
    <3>1. UNCHANGED <<mounts, copy, busy, ret, part>> /\ part # "volumes" /\ ret.op = "none"
      BY <2>2 DEF InstallStep, FlashStep, vol, VolumesInv
    <3> QED BY <3>1, TableKept DEF VolumesInv
  <2>3. CASE UNCHANGED vars
    BY <2>3 DEF vars, vol, VolumesInv, Table, Vols, Rootfs
  <2> QED BY <2>1, <2>2, <2>3 DEF Next
<1> QED BY <1>1, <1>2, PTL DEF Spec, VolumesSafe, VolumesTold

-----------------------------------------------------------------------------
(* Flash: places on the blocks                                             *)

\* Induction, as a fact about sets of numbers.
LEMMA AllNumbers ==
    ASSUME NEW S \in SUBSET Nat, 0 \in S, \A k \in S : k + 1 \in S
    PROVE  S = Nat
<1> SUFFICES ASSUME Nat \ S # {} PROVE FALSE
  OBVIOUS
<1>1. PICK x \in Nat \ S : \A y \in Nat \ S : x <= y
  <2>1. Nat \ S \in SUBSET Nat
    OBVIOUS
  <2> QED BY <2>1, LeastNumber
<1>2. x - 1 \in Nat /\ x - 1 \notin Nat \ S
  BY <1>1
<1> QED BY <1>1, <1>2

Before(G, b) == Fla!UnitsOn({c \in G : c < b})

\* The units on the blocks of a set that are before a block: none before the
\* first, those of a block more behind it, never fewer further on.
LEMMA UnitsBefore ==
    ASSUME NEW G \in SUBSET Fla!Blocks
    PROVE  /\ Before(G, 0) = 0 /\ Before(G, NBlocks) = Fla!UnitsOn(G)
           /\ \A b \in 0 .. NBlocks : Before(G, b) \in Nat
           /\ \A b \in Fla!Blocks : Before(G, b + 1) = IF b \in G THEN Before(G, b) + BlockUnits ELSE Before(G, b)
           /\ \A b, c \in 0 .. NBlocks : b <= c => Before(G, b) <= Before(G, c)
<1>1. NBlocks \in Nat /\ BlockUnits \in Nat /\ NBlocks > 0 /\ BlockUnits > 0
  BY FlashSizes
<1>2. \A S : Fla!UnitsOn(S) = Cardinality(S) * BlockUnits
  <2>1. \A S : Fla!Cardinality(S) = Cardinality(S)
    BY Zenon DEF Fla!Cardinality, Cardinality
  <2> QED BY <2>1 DEF Fla!UnitsOn
<1>3. IsFiniteSet(G)
  <2>1. IsFiniteSet(0 .. NBlocks - 1)
    BY <1>1, FS_Interval
  <2> QED BY <2>1, FS_Subset DEF Fla!Blocks
<1> DEFINE Front(b) == {c \in G : c < b}
<1>4. \A b : IsFiniteSet(Front(b)) /\ Cardinality(Front(b)) \in Nat
  <2>1. \A b : Front(b) \in SUBSET G
    OBVIOUS
  <2> HIDE DEF Front
  <2> QED BY <1>3, <2>1, FS_Subset, FS_CardinalityType
<1>5. \A b : Before(G, b) = Cardinality(Front(b)) * BlockUnits
  BY <1>2 DEF Before
<1>0. \A c \in G : c \in Int /\ c >= 0 /\ c < NBlocks
  BY <1>1 DEF Fla!Blocks
<1>6. Before(G, 0) = 0 /\ Before(G, NBlocks) = Fla!UnitsOn(G)
  <2>1. Front(0) = {} /\ Front(NBlocks) = G
    <3>1. \A c \in G : ~(c < 0) /\ c < NBlocks
      BY <1>0
    <3> QED BY <3>1
  <2>2. Cardinality(Front(0)) = 0
    BY <2>1, FS_EmptySet
  <2> HIDE DEF Front
  <2> QED BY <1>1, <1>2, <1>5, <2>1, <2>2
<1>7. ASSUME NEW b \in 0 .. NBlocks PROVE Before(G, b) \in Nat
  <2>1. ASSUME NEW n \in Nat PROVE n * BlockUnits \in Nat
    BY <1>1
  <2> HIDE DEF Front
  <2> QED BY <1>4, <1>5, <2>1
<1>8. ASSUME NEW b \in Fla!Blocks
      PROVE  Before(G, b + 1) = IF b \in G THEN Before(G, b) + BlockUnits ELSE Before(G, b)
  <2>1. CASE b \in G
    <3>1. Front(b + 1) = Front(b) \cup {b} /\ b \notin Front(b)
      <4>1. b \in Int /\ ~(b < b) /\ b < b + 1
        BY <1>1 DEF Fla!Blocks
      <4>2. \A c \in G : c < b + 1 <=> c < b \/ c = b
        BY <1>0, <4>1
      <4> QED BY <2>1, <4>1, <4>2
    <3>2. Cardinality(Front(b + 1)) = Cardinality(Front(b)) + 1
      <4> HIDE DEF Front
      <4> QED BY <1>4, <3>1, FS_AddElement
    <3>3. ASSUME NEW n \in Nat PROVE (n + 1) * BlockUnits = n * BlockUnits + BlockUnits
      BY <1>1
    <3> HIDE DEF Front
    <3> QED BY <1>4, <1>5, <2>1, <3>2, <3>3
  <2>2. CASE b \notin G
    <3>1. Front(b + 1) = Front(b)
      <4>1. b \in Int
        BY <1>1 DEF Fla!Blocks
      <4>2. \A c \in G : c < b + 1 <=> c < b
        BY <1>0, <2>2, <4>1
      <4> QED BY <4>2
    <3> HIDE DEF Front
    <3> QED BY <1>5, <2>2, <3>1
  <2> QED BY <2>1, <2>2
<1>9. ASSUME NEW b \in 0 .. NBlocks, NEW c \in 0 .. NBlocks, b <= c PROVE Before(G, b) <= Before(G, c)
  <2>1. Front(b) \in SUBSET Front(c)
    <3>1. \A e \in G : e < b => e < c
      BY <1>0, <1>1, <1>9
    <3> QED BY <3>1
  <2>2. Cardinality(Front(b)) <= Cardinality(Front(c))
    <3> HIDE DEF Front
    <3> QED BY <1>4, <2>1, FS_Subset
  <2>3. ASSUME NEW m \in Nat, NEW n \in Nat, m <= n PROVE m * BlockUnits <= n * BlockUnits
    BY <1>1, <2>3
  <2> HIDE DEF Front
  <2> QED BY <1>4, <1>5, <2>2, <2>3
<1> QED BY <1>6, <1>7, <1>8, <1>9

\* The same for the good blocks: a unit before place Upto(a) is on a block
\* before block a, and only the first good block is at place 0.
LEMMA Places ==
    ASSUME Fla!TypeOK
    PROVE  /\ \A b \in Fla!Good : b \in Fla!Blocks
           /\ Fla!Upto(0) = 0 /\ Fla!Upto(NBlocks) = Fla!UnitsOn(Fla!Good)
           /\ \A b \in 0 .. NBlocks : Fla!Upto(b) \in Nat /\ Fla!Upto(b) <= Fla!UnitsOn(Fla!Good)
           /\ \A b \in Fla!Blocks :
                 Fla!Upto(b + 1) = IF b \in Fla!Good THEN Fla!Upto(b) + BlockUnits ELSE Fla!Upto(b)
           /\ \A b, c \in 0 .. NBlocks : b <= c => Fla!Upto(b) <= Fla!Upto(c)
           /\ \A b \in Fla!Good, c \in 0 .. NBlocks : b < c => Fla!Upto(b) + BlockUnits <= Fla!Upto(c)
           /\ \A b \in Fla!Good, c \in 0 .. NBlocks, j \in 1 .. BlockUnits :
                 Fla!Upto(b) + j <= Fla!Upto(c) => b < c
           /\ \A c \in 0 .. NBlocks : Fla!Upto(c) = 0 \/ Fla!Upto(c) >= BlockUnits
           /\ \A b, c \in Fla!Good : Fla!Upto(b) = 0 /\ Fla!Upto(c) = 0 => b = c
<1>1. NBlocks \in Nat /\ BlockUnits \in Nat /\ NBlocks > 0 /\ BlockUnits > 0
  BY FlashSizes
<1>2. Fla!Good \in SUBSET Fla!Blocks
  BY DEF Fla!Good
<1>3. \A b : Fla!Upto(b) = Before(Fla!Good, b)
  BY DEF Fla!Upto, Before
<1>4. /\ Fla!Upto(0) = 0 /\ Fla!Upto(NBlocks) = Fla!UnitsOn(Fla!Good)
      /\ \A b \in 0 .. NBlocks : Fla!Upto(b) \in Nat
      /\ \A b \in Fla!Blocks :
            Fla!Upto(b + 1) = IF b \in Fla!Good THEN Fla!Upto(b) + BlockUnits ELSE Fla!Upto(b)
      /\ \A b, c \in 0 .. NBlocks : b <= c => Fla!Upto(b) <= Fla!Upto(c)
  BY <1>2, <1>3, UnitsBefore
<1>5. \A b \in Fla!Good : b \in Fla!Blocks /\ b \in 0 .. NBlocks /\ b + 1 \in 0 .. NBlocks /\ b \in Int
  BY <1>1, <1>2 DEF Fla!Blocks
<1>6. ASSUME NEW b \in 0 .. NBlocks PROVE Fla!Upto(b) <= Fla!UnitsOn(Fla!Good)
  <2>1. b <= NBlocks /\ NBlocks \in 0 .. NBlocks
    BY <1>1
  <2> QED BY <1>4, <2>1
<1>7. ASSUME NEW b \in Fla!Good, NEW c \in 0 .. NBlocks, b < c
      PROVE  Fla!Upto(b) + BlockUnits <= Fla!Upto(c)
  <2>1. b + 1 <= c
    BY <1>5, <1>7
  <2> QED BY <1>4, <1>5, <2>1
<1>8. ASSUME NEW b \in Fla!Good, NEW c \in 0 .. NBlocks, NEW j \in 1 .. BlockUnits,
             Fla!Upto(b) + j <= Fla!Upto(c)
      PROVE  b < c
  <2>1. c <= b => Fla!Upto(c) <= Fla!Upto(b)
    BY <1>4, <1>5
  <2>2. Fla!Upto(c) \in Nat /\ Fla!Upto(b) \in Nat /\ b \in Int /\ c \in Int
    BY <1>4, <1>5
  <2> QED BY <1>8, <2>1, <2>2
<1>9. ASSUME NEW c \in 0 .. NBlocks, Fla!Upto(c) # 0 PROVE Fla!Upto(c) >= BlockUnits
  <2>1. \E b \in Fla!Good : b < c
    <3> SUFFICES ASSUME ~\E b \in Fla!Good : b < c PROVE FALSE
      OBVIOUS
    <3>1. {b \in Fla!Good : b < c} = {b \in Fla!Good : b < 0}
      <4>1. \A b \in Fla!Good : ~(b < 0)
        BY <1>5
      <4> QED BY <4>1
    <3>2. Fla!Upto(c) = Fla!Upto(0)
      BY <3>1 DEF Fla!Upto
    <3> QED BY <1>4, <1>9, <3>2
  <2>2. PICK b \in Fla!Good : b < c
    BY <2>1
  <2>3. Fla!Upto(b) + BlockUnits <= Fla!Upto(c) /\ Fla!Upto(b) \in Nat /\ Fla!Upto(c) \in Nat
    BY <1>4, <1>5, <1>7, <2>2
  <2> QED BY <1>1, <2>3
<1>10. ASSUME NEW b \in Fla!Good, NEW c \in Fla!Good, Fla!Upto(b) = 0, Fla!Upto(c) = 0 PROVE b = c
  <2>1. (b < c => 0 + BlockUnits <= 0) /\ (c < b => 0 + BlockUnits <= 0)
    BY <1>5, <1>7, <1>10
  <2> QED BY <1>1, <1>5, <2>1
<1> QED BY <1>4, <1>5, <1>6, <1>7, <1>8, <1>9, <1>10

-----------------------------------------------------------------------------
(* Flash: types                                                            *)

\* Every step keeps the types of the control state.
LEMMA ControlTypes ==
    ASSUME Fla!TypeOK, Fla!ProgramsOrdered, Fla!Next
    PROVE  Fla!ControlOK'
<1>0. Fla!ControlOK /\ (Fla!InBlock => fwr.ret \in {"write", "erase", "open_erase"})
  BY DEF Fla!TypeOK, Fla!ProgramsOrdered
<1>1. CASE Fla!Scan
  BY <1>0, <1>1 DEF Fla!ControlOK, Fla!Scan, Fla!Fault, Fla!Exit
<1>2. CASE Fla!FlashCheck
  BY <1>0, <1>2 DEF Fla!ControlOK, Fla!FlashCheck, Fla!Exit
<1>3. CASE Fla!FlashMain
  BY <1>0, <1>3 DEF Fla!ControlOK, Fla!FlashMain, Fla!CopyUnit, Fla!Exit
<1>4. CASE Fla!RawMain
  BY <1>0, <1>4 DEF Fla!ControlOK, Fla!RawMain, Fla!CopyUnit, Fla!Exit, Fla!Fault
<1>5. CASE Fla!EraseMain
  BY <1>0, <1>5 DEF Fla!ControlOK, Fla!EraseMain, Fla!Exit
<1>6. CASE Fla!mtd_write_data
  BY <1>0, <1>6 DEF Fla!ControlOK, Fla!mtd_write_data, Fla!WriteBlockOf
<1>7. CASE Fla!BlockMarked
  BY <1>0, <1>7 DEF Fla!ControlOK, Fla!BlockMarked
<1>8. CASE Fla!BlockErase
  BY <1>0, <1>8 DEF Fla!ControlOK, Fla!BlockErase, Fla!Fault
<1>9. CASE Fla!BlockProgram
  BY <1>0, <1>9 DEF Fla!ControlOK, Fla!BlockProgram, Fla!Fault, Fla!InBlock
<1>10. CASE Fla!BlockGiveUp
  BY <1>0, <1>10 DEF Fla!ControlOK, Fla!BlockGiveUp
<1>11. CASE Fla!BlockNoSpace
  BY <1>0, <1>11 DEF Fla!ControlOK, Fla!BlockNoSpace, Fla!Exit
<1>12. CASE Fla!OpenErase
  BY <1>0, <1>12 DEF Fla!ControlOK, Fla!OpenErase, Fla!Pad
<1>13. CASE Fla!mtd_erase_blocks
  BY <1>0, <1>13 DEF Fla!ControlOK, Fla!mtd_erase_blocks, Fla!Pad, Fla!Fault
<1>14. CASE Fla!mtd_read_data
  BY <1>0, <1>14 DEF Fla!ControlOK, Fla!mtd_read_data, Fla!Exit
<1>15. CASE Fla!DumpUnit
  BY <1>0, <1>15 DEF Fla!ControlOK, Fla!DumpUnit, Fla!Fault, Fla!Exit
<1>16. CASE Fla!Restart
  BY <1>0, <1>16 DEF Fla!ControlOK, Fla!Restart
<1>17. CASE Fla!Crash
  BY <1>0, <1>17 DEF Fla!ControlOK, Fla!Crash
<1> QED BY <1>1, <1>2, <1>3, <1>4, <1>5, <1>6, <1>7, <1>8, <1>9, <1>10, <1>11, <1>12, <1>13, <1>14, <1>15, <1>16, <1>17 DEF Fla!Next

\* Every step keeps the types of the device and of the image.
LEMMA DeviceTypes ==
    ASSUME Fla!TypeOK, Fla!ProgramsOrdered, Fla!Next
    PROVE  Fla!DeviceOK'
<1>0. /\ marked' = marked /\ img' = img /\ (eccBad' = eccBad \/ eccBad' = eccBad \ {fwr.pos})
      /\ \/ flash' = flash
         \/ /\ fwr.pos \in Fla!Blocks
            /\ \E x \in [1 .. BlockUnits -> Int] : flash' = [flash EXCEPT ![fwr.pos] = x]
  <2>0. /\ NBlocks \in Nat /\ BlockUnits \in Nat /\ fwr.pos \in 0 .. NBlocks /\ fwr.n \in 0 .. NBlocks
        /\ Fla!ErasedBlock \in [1 .. BlockUnits -> Int] /\ Fla!Junk \in [1 .. BlockUnits -> Int]
        /\ (Fla!InBlock => fwr.data \in [1 .. BlockUnits -> Int])
    <3>1. NBlocks \in Nat /\ BlockUnits \in Nat
      BY FlashSizes
    <3>2. fwr.pos \in 0 .. NBlocks /\ fwr.n \in 0 .. NBlocks /\ fwr.data \in Seq(Int)
      BY DEF Fla!TypeOK, Fla!MtdWriteContext
    <3>3. Fla!InBlock => Len(fwr.data) = BlockUnits
      BY DEF Fla!ProgramsOrdered
    <3>4. Fla!ErasedBlock \in [1 .. BlockUnits -> Int] /\ Fla!Junk \in [1 .. BlockUnits -> Int]
      BY DEF Fla!ErasedBlock, Fla!Junk, Fla!Blank
    <3> QED BY <3>1, <3>2, <3>3, <3>4
  <2>1. CASE Fla!Scan \/ Fla!FlashCheck \/ Fla!FlashMain \/ Fla!RawMain \/ Fla!EraseMain \/ Fla!mtd_write_data
             \/ Fla!BlockMarked \/ Fla!BlockNoSpace \/ Fla!OpenErase \/ Fla!mtd_read_data \/ Fla!DumpUnit \/ Fla!Restart
    BY <2>1 DEF Fla!Scan, Fla!FlashCheck, Fla!FlashMain, Fla!RawMain, Fla!EraseMain, Fla!mtd_write_data, Fla!BlockMarked, Fla!BlockNoSpace, Fla!OpenErase, Fla!mtd_read_data, Fla!DumpUnit, Fla!Restart
  <2>2. CASE Fla!BlockErase
    BY <2>0, <2>2 DEF Fla!BlockErase, Fla!Blocks
  <2>3. CASE Fla!BlockProgram
    <3>1. fwr.pos \in Fla!Blocks /\ Fla!InBlock
      BY <2>3 DEF Fla!BlockProgram, Fla!ProgramsOrdered, Fla!Good, Fla!InBlock
    <3> QED BY <2>0, <2>3, <3>1 DEF Fla!BlockProgram
  <2>4. CASE Fla!BlockGiveUp
    BY <2>0, <2>4 DEF Fla!BlockGiveUp, Fla!Blocks
  <2>5. CASE Fla!mtd_erase_blocks
    <3>1. fpc = "erase" /\ (fwr.n = 0 \/ fwr.n = NBlocks - fwr.pos)
      BY <2>5 DEF Fla!mtd_erase_blocks, Fla!ProgramsOrdered
    <3>2. fwr.n > 0 => fwr.pos \in Fla!Blocks
      BY <2>0, <3>1 DEF Fla!Blocks
    <3> QED BY <2>0, <2>5, <3>2 DEF Fla!mtd_erase_blocks
  <2>6. CASE Fla!Crash
    <3>1. CASE fpc = "program"
      <4>1. fwr.pos \in Fla!Blocks /\ Fla!InBlock
        BY <3>1 DEF Fla!ProgramsOrdered, Fla!Good, Fla!InBlock
      <4>2. PICK k \in 0 .. BlockUnits : flash' = [flash EXCEPT ![fwr.pos] =
                  [i \in 1 .. BlockUnits |-> IF i <= k THEN fwr.data[i] ELSE Fla!Blank]]
        BY <2>6, <3>1 DEF Fla!Crash
      <4>3. [i \in 1 .. BlockUnits |-> IF i <= k THEN fwr.data[i] ELSE Fla!Blank] \in [1 .. BlockUnits -> Int]
        BY <2>0, <4>1 DEF Fla!Blank
      <4> QED BY <2>6, <4>1, <4>2, <4>3 DEF Fla!Crash
    <3>2. CASE fpc # "program"
      BY <2>6, <3>2 DEF Fla!Crash
    <3> QED BY <3>1, <3>2
  <2> QED BY <2>1, <2>2, <2>3, <2>4, <2>5, <2>6 DEF Fla!Next
<1>1. Fla!DeviceOK
  BY DEF Fla!TypeOK
<1>2. flash' \in [Fla!Blocks -> [1 .. BlockUnits -> Int]]
  BY <1>0, <1>1 DEF Fla!DeviceOK
<1> QED BY <1>0, <1>1, <1>2 DEF Fla!DeviceOK, Fla!Header, Fla!Blank, Fla!Zero

\* The parts of a context.
LEMMA ContextParts ==
    ASSUME Fla!TypeOK
    PROVE  /\ fwr.fd \in 0 .. NBlocks /\ fwr.pos \in 0 .. NBlocks /\ fwr.n \in 0 .. NBlocks /\ fwr.try \in Nat
           /\ fwr.stored \in Seq(Int) /\ fwr.todo \in Seq(Int) /\ fwr.data \in Seq(Int)
           /\ fwr.bad \in Seq(Fla!Blocks) /\ fwr.failed \in BOOLEAN
           /\ fwr.ret \in {"none", "main", "write", "erase", "open_erase"}
           /\ frd.pos \in 0 .. NBlocks /\ frd.buf \in Seq(Int)
<1>1. fwr \in Fla!MtdWriteContext /\ frd \in Fla!MtdReadContext
  BY DEF Fla!TypeOK
<1> QED BY <1>1 DEF Fla!MtdWriteContext, Fla!MtdReadContext

\* A list that is cut in two, and the front of it put behind another one.
LEMMA Refilled ==
    ASSUME NEW s \in Seq(Int), NEW t \in Seq(Int), NEW n \in 0 .. Len(t)
    PROVE  LET buf == s \o SubSeq(t, 1, n)
               rest == SubSeq(t, n + 1, Len(t))
           IN  /\ buf \in Seq(Int) /\ Len(buf) = Len(s) + n
               /\ rest \in Seq(Int) /\ Len(rest) = Len(t) - n
               /\ \A j \in 1 .. Len(s) + n : buf[j] = IF j <= Len(s) THEN s[j] ELSE t[j - Len(s)]
               /\ \A j \in 1 .. Len(t) - n : rest[j] = t[n + j]
<1> DEFINE a == SubSeq(t, 1, n)
           rest == SubSeq(t, n + 1, Len(t))
<1>1. a \in Seq(Int) /\ Len(a) = n /\ \A j \in 1 .. n : a[j] = t[j]
  OBVIOUS
<1>2. rest \in Seq(Int) /\ Len(rest) = Len(t) - n /\ \A j \in 1 .. Len(t) - n : rest[j] = t[n + j]
  OBVIOUS
<1> HIDE DEF a
<1>3. /\ s \o a \in Seq(Int) /\ Len(s \o a) = Len(s) + Len(a)
      /\ \A j \in 1 .. Len(s) + Len(a) : (s \o a)[j] = IF j <= Len(s) THEN s[j] ELSE a[j - Len(s)]
  BY <1>1, ConcatProperties
<1>4. ASSUME NEW j \in 1 .. Len(s) + n PROVE (s \o a)[j] = IF j <= Len(s) THEN s[j] ELSE t[j - Len(s)]
  <2>1. CASE j <= Len(s)
    BY <1>1, <1>3, <2>1
  <2>2. CASE ~(j <= Len(s))
    <3>1. j - Len(s) \in 1 .. n
      BY <2>2
    <3> QED BY <1>1, <1>3, <2>2, <3>1
  <2> QED BY <2>1, <2>2
<1> HIDE DEF rest
<1>5. s \o a \in Seq(Int) /\ Len(s \o a) = Len(s) + n
  BY <1>1, <1>3
<1> QED BY <1>2, <1>4, <1>5 DEF a, rest

\* A list that is filled up with zeros.
LEMMA Padded ==
    ASSUME NEW s \in Seq(Int), Len(s) <= BlockUnits
    PROVE  LET buf == s \o [i \in 1 .. BlockUnits - Len(s) |-> Fla!Zero]
           IN  /\ buf \in Seq(Int) /\ Len(buf) = BlockUnits
               /\ \A j \in 1 .. BlockUnits : buf[j] = IF j <= Len(s) THEN s[j] ELSE Fla!Zero
<1> DEFINE a == [i \in 1 .. BlockUnits - Len(s) |-> Fla!Zero]
<1>0. BlockUnits \in Nat
  BY FlashSizes
<1>1. a \in Seq(Int) /\ Len(a) = BlockUnits - Len(s) /\ \A j \in 1 .. BlockUnits - Len(s) : a[j] = Fla!Zero
  BY <1>0 DEF Fla!Zero
<1> HIDE DEF a
<1>3. /\ s \o a \in Seq(Int) /\ Len(s \o a) = Len(s) + Len(a)
      /\ \A j \in 1 .. Len(s) + Len(a) : (s \o a)[j] = IF j <= Len(s) THEN s[j] ELSE a[j - Len(s)]
  BY <1>1, ConcatProperties
<1>4. ASSUME NEW j \in 1 .. BlockUnits PROVE (s \o a)[j] = IF j <= Len(s) THEN s[j] ELSE Fla!Zero
  <2>1. CASE j <= Len(s)
    BY <1>0, <1>1, <1>3, <2>1
  <2>2. CASE ~(j <= Len(s))
    <3>1. j - Len(s) \in 1 .. BlockUnits - Len(s)
      BY <1>0, <2>2
    <3> QED BY <1>0, <1>1, <1>3, <2>2, <3>1
  <2> QED BY <2>1, <2>2
<1>5. s \o a \in Seq(Int) /\ Len(s \o a) = BlockUnits
  BY <1>0, <1>1, <1>3
<1> QED BY <1>4, <1>5 DEF a

\* Every step keeps the types of the write context.
LEMMA WriterTypes ==
    ASSUME Fla!TypeOK, Fla!ProgramsOrdered, Fla!Next
    PROVE  fwr' \in Fla!MtdWriteContext /\ Len(fwr'.stored) <= BlockUnits
<1>1. NBlocks \in Nat /\ BlockUnits \in Nat /\ BlockUnits > 0
  BY FlashSizes
<1>2. fwr \in Fla!MtdWriteContext /\ Len(fwr.stored) <= BlockUnits
  BY DEF Fla!TypeOK
<1>3. fwr.stored \in Seq(Int) /\ fwr.todo \in Seq(Int) /\ fwr.bad \in Seq(Fla!Blocks)
  BY ContextParts
<1>a. fwr.fd \in 0 .. NBlocks /\ fwr.pos \in 0 .. NBlocks /\ fwr.n \in 0 .. NBlocks /\ fwr.try \in Nat
  BY ContextParts
<1>b. 0 \in 0 .. NBlocks /\ 0 \in Nat /\ <<>> \in Seq(Int) /\ Len(<<>>) <= BlockUnits /\ <<>> \in Seq(Fla!Blocks)
  BY <1>1
<1>4. ASSUME NEW u \in Seq(Int), NEW x \in {"main"}, Fla!mtd_write_partition(u, x)
      PROVE  fwr' \in Fla!MtdWriteContext /\ Len(fwr'.stored) <= BlockUnits
  <2>1. fwr' = [fd |-> 0, pos |-> 0, stored |-> <<>>, todo |-> u, bad |-> <<>>,
                data |-> <<>>, try |-> 0, n |-> 0, ret |-> x, failed |-> FALSE]
    BY <1>4 DEF Fla!mtd_write_partition, Fla!NoWrite
  <2>2. fwr' \in Fla!MtdWriteContext
    BY <1>b, <1>4, <2>1 DEF Fla!MtdWriteContext
  <2>3. fwr'.stored = <<>>
    BY <2>1
  <2> QED BY <1>b, <2>2, <2>3
<1>5. img \in Seq(Int) /\ Fla!Header \in Int /\ fp \in Nat
  BY DEF Fla!TypeOK, Fla!DeviceOK, Fla!Header
<1>7. CASE Fla!CopyUnit
  <2>1. img[fp + 1] \in Int
    BY <1>5, <1>7 DEF Fla!CopyUnit
  <2>2. fwr' = [fwr EXCEPT !.todo = <<img[fp + 1]>>]
    BY <1>7 DEF Fla!CopyUnit
  <2>3. <<img[fp + 1]>> \in Seq(Int)
    BY <2>1
  <2> QED BY <1>2, <2>2, <2>3 DEF Fla!MtdWriteContext
<1>8. CASE UNCHANGED fwr
  BY <1>2, <1>8
<1>9. CASE fwr' = [fwr EXCEPT !.n = 0]
  BY <1>b, <1>2, <1>9 DEF Fla!MtdWriteContext
<1>10. ASSUME NEW next \in {"erase", "open_erase"}, Fla!Pad(next)
       PROVE  fwr' \in Fla!MtdWriteContext /\ Len(fwr'.stored) <= BlockUnits
  <2> DEFINE buf == fwr.stored \o [i \in 1 .. BlockUnits - Len(fwr.stored) |-> Fla!Zero]
  <2>1. buf \in Seq(Int) /\ Len(buf) = BlockUnits
    BY <1>2, <1>3, Padded
  <2>2. fwr' = [fwr EXCEPT !.data = buf, !.stored = buf, !.pos = fwr.fd, !.try = 0, !.ret = next]
    BY <1>10 DEF Fla!Pad
  <2> HIDE DEF buf
  <2>3. Len(buf) <= BlockUnits
    BY <1>1, <2>1
  <2> QED BY <1>2, <1>a, <1>b, <2>1, <2>2, <2>3 DEF Fla!MtdWriteContext
<1>11. CASE Fla!Scan
  BY <1>b, <1>4, <1>8, <1>11 DEF Fla!Scan
<1>12. CASE Fla!FlashCheck
  <2>1. <<Fla!Zero>> \in Seq(Int)
    BY DEF Fla!Zero
  <2> QED BY <1>4, <1>8, <1>12, <2>1 DEF Fla!FlashCheck
<1>13. CASE Fla!FlashMain
  <2>1. <<Fla!Header>> \in Seq(Int)
    BY <1>5
  <2> QED BY <1>4, <1>7, <1>8, <1>9, <1>13, <2>1 DEF Fla!FlashMain
<1>14. CASE Fla!RawMain
  BY <1>7, <1>8, <1>9, <1>14 DEF Fla!RawMain
<1>15. CASE Fla!mtd_write_data
  <2>1. ASSUME NEW s \in Seq(Int), Len(s) <= BlockUnits, NEW t \in Seq(Int), NEW d \in Seq(Int),
               Fla!WriteBlockOf(d, s, t)
        PROVE  fwr' \in Fla!MtdWriteContext /\ Len(fwr'.stored) <= BlockUnits
    <3>1. fwr' = [fwr EXCEPT !.data = d, !.stored = s, !.todo = t, !.pos = fwr.fd, !.try = 0, !.ret = "write"]
      BY <2>1 DEF Fla!WriteBlockOf
    <3> QED BY <1>2, <1>a, <1>b, <2>1, <3>1 DEF Fla!MtdWriteContext
  <2>2. CASE /\ fwr.todo # <<>> /\ (fwr.stored # <<>> \/ Len(fwr.todo) < BlockUnits)
             /\ LET room == BlockUnits - Len(fwr.stored)
                    n    == IF Len(fwr.todo) < room THEN Len(fwr.todo) ELSE room
                    buf  == fwr.stored \o SubSeq(fwr.todo, 1, n)
                    rest == SubSeq(fwr.todo, n + 1, Len(fwr.todo))
                IN  IF Len(buf) = BlockUnits THEN Fla!WriteBlockOf(buf, buf, rest)
                    ELSE fwr' = [fwr EXCEPT !.stored = buf, !.todo = rest] /\ fpc' = fpc
    <3> DEFINE room == BlockUnits - Len(fwr.stored)
               n    == IF Len(fwr.todo) < room THEN Len(fwr.todo) ELSE room
               buf  == fwr.stored \o SubSeq(fwr.todo, 1, n)
               rest == SubSeq(fwr.todo, n + 1, Len(fwr.todo))
    <3>1. n \in 0 .. Len(fwr.todo) /\ Len(fwr.stored) + n <= BlockUnits
      <4>1. Len(fwr.todo) \in Nat /\ Len(fwr.stored) \in Nat
        BY <1>3
      <4>2. ASSUME NEW l \in Nat, NEW k \in Nat, k <= BlockUnits
            PROVE  LET m == IF l < BlockUnits - k THEN l ELSE BlockUnits - k
                   IN  m \in 0 .. l /\ k + m <= BlockUnits
        BY <1>1, <4>2
      <4> QED BY <1>2, <4>1, <4>2
    <3>2. IF Len(buf) = BlockUnits THEN Fla!WriteBlockOf(buf, buf, rest)
          ELSE fwr' = [fwr EXCEPT !.stored = buf, !.todo = rest]
      BY <2>2
    <3> HIDE DEF n
    <3>3. buf \in Seq(Int) /\ Len(buf) = Len(fwr.stored) + n /\ rest \in Seq(Int)
      BY <1>3, <3>1, Refilled
    <3> HIDE DEF buf, rest
    <3>4. Len(buf) <= BlockUnits
      BY <3>1, <3>3
    <3>5. CASE Len(buf) = BlockUnits
      BY <2>1, <3>2, <3>3, <3>4, <3>5
    <3>6. CASE Len(buf) # BlockUnits
      BY <1>2, <3>2, <3>3, <3>4, <3>6 DEF Fla!MtdWriteContext
    <3> QED BY <3>5, <3>6
  <2>3. CASE /\ fwr.stored = <<>> /\ Len(fwr.todo) >= BlockUnits
             /\ Fla!WriteBlockOf(SubSeq(fwr.todo, 1, BlockUnits), <<>>,
                                 SubSeq(fwr.todo, BlockUnits + 1, Len(fwr.todo)))
    <3>1. /\ SubSeq(fwr.todo, 1, BlockUnits) \in Seq(Int)
          /\ SubSeq(fwr.todo, BlockUnits + 1, Len(fwr.todo)) \in Seq(Int)
      <4>1. BlockUnits \in 0 .. Len(fwr.todo) /\ <<>> \in Seq(Int)
        BY <1>1, <1>3, <2>3
      <4> QED BY <1>3, <4>1, SubSeqProperties
    <3>2. <<>> \in Seq(Int) /\ Len(<<>>) <= BlockUnits
      BY <1>1
    <3> QED BY <2>1, <2>3, <3>1, <3>2
  <2>4. CASE UNCHANGED fwr
    BY <1>8, <2>4
  <2> QED BY <1>15, <2>2, <2>3, <2>4 DEF Fla!mtd_write_data
<1>16. CASE Fla!BlockMarked
  <2>1. fwr.pos \in Fla!Blocks /\ fwr.pos + 1 \in 0 .. NBlocks
    BY <1>1, <1>a, <1>16 DEF Fla!BlockMarked, Fla!Blocks
  <2>2. Append(fwr.bad, fwr.pos) \in Seq(Fla!Blocks)
    BY <1>3, <2>1
  <2>3. fwr' = [fwr EXCEPT !.bad = Append(fwr.bad, fwr.pos), !.pos = fwr.pos + 1]
    BY <1>16 DEF Fla!BlockMarked
  <2> QED BY <1>2, <2>1, <2>2, <2>3 DEF Fla!MtdWriteContext
<1>17. CASE Fla!BlockErase
  <2>1. fwr' = fwr \/ fwr' = [fwr EXCEPT !.try = fwr.try + 1]
    BY <1>17 DEF Fla!BlockErase
  <2>2. fwr.try + 1 \in Nat
    BY <1>a
  <2> QED BY <1>2, <2>1, <2>2 DEF Fla!MtdWriteContext
<1>18. CASE Fla!BlockProgram
  <2>1. fwr.pos \in 0 .. NBlocks /\ fwr.pos + 1 \in 0 .. NBlocks /\ fwr.try + 1 \in Nat
    BY <1>1, <1>a, <1>18 DEF Fla!BlockProgram, Fla!ProgramsOrdered, Fla!Good, Fla!Blocks
  <2>2. \/ fwr' = [fwr EXCEPT !.fd = fwr.pos + 1, !.stored = <<>>, !.try = 0]
        \/ \E back \in {fwr.pos, fwr.pos + 1} : fwr' = [fwr EXCEPT !.try = fwr.try + 1, !.fd = back]
    BY <1>18 DEF Fla!BlockProgram
  <2>3. CASE fwr' = [fwr EXCEPT !.fd = fwr.pos + 1, !.stored = <<>>, !.try = 0]
    BY <1>b, <1>2, <2>1, <2>3 DEF Fla!MtdWriteContext
  <2>4. ASSUME NEW back \in {fwr.pos, fwr.pos + 1}, fwr' = [fwr EXCEPT !.try = fwr.try + 1, !.fd = back]
        PROVE  fwr' \in Fla!MtdWriteContext /\ Len(fwr'.stored) <= BlockUnits
    BY <1>2, <2>1, <2>4 DEF Fla!MtdWriteContext
  <2> QED BY <2>2, <2>3, <2>4
<1>19. CASE Fla!BlockGiveUp
  <2>1. fwr.pos \in Fla!Blocks /\ fwr.pos + 1 \in 0 .. NBlocks
    BY <1>1, <1>a, <1>19 DEF Fla!BlockGiveUp, Fla!Blocks
  <2>2. Append(fwr.bad, fwr.pos) \in Seq(Fla!Blocks)
    BY <1>3, <2>1
  <2>3. fwr' = [fwr EXCEPT !.bad = Append(fwr.bad, fwr.pos), !.pos = fwr.pos + 1, !.try = 0]
    BY <1>19 DEF Fla!BlockGiveUp
  <2> QED BY <1>2, <2>1, <2>2, <2>3 DEF Fla!MtdWriteContext
<1>20. CASE Fla!BlockNoSpace
  <2>1. fwr' = fwr \/ fwr' = [fwr EXCEPT !.failed = TRUE, !.todo = <<>>]
    BY <1>20 DEF Fla!BlockNoSpace
  <2> QED BY <1>2, <1>b, <2>1 DEF Fla!MtdWriteContext
<1>21. CASE Fla!OpenErase
  <2>1. Fla!Pad("open_erase") \/ fwr' = [fwr EXCEPT !.n = NBlocks - fwr.fd, !.pos = fwr.fd]
    BY <1>21 DEF Fla!OpenErase
  <2>2. NBlocks - fwr.fd \in 0 .. NBlocks
    BY <1>1, <1>a
  <2>3. CASE fwr' = [fwr EXCEPT !.n = NBlocks - fwr.fd, !.pos = fwr.fd]
    BY <1>2, <1>a, <2>2, <2>3 DEF Fla!MtdWriteContext
  <2> QED BY <1>10, <2>1, <2>3
<1>22. CASE Fla!mtd_erase_blocks
  <2>1. \/ Fla!Pad("erase") \/ UNCHANGED fwr
        \/ (fwr.n > 0 /\ fwr' = [fwr EXCEPT !.n = fwr.n - 1, !.pos = fwr.pos + 1])
    BY <1>22 DEF Fla!mtd_erase_blocks
  <2>2. fwr.n = 0 \/ fwr.n = NBlocks - fwr.pos
    BY <1>22 DEF Fla!mtd_erase_blocks, Fla!ProgramsOrdered
  <2>3. fwr.n > 0 => fwr.n - 1 \in 0 .. NBlocks /\ fwr.pos + 1 \in 0 .. NBlocks
    BY <1>1, <1>a, <2>2
  <2>4. CASE fwr.n > 0 /\ fwr' = [fwr EXCEPT !.n = fwr.n - 1, !.pos = fwr.pos + 1]
    BY <1>2, <2>3, <2>4 DEF Fla!MtdWriteContext
  <2> QED BY <1>8, <1>10, <2>1, <2>4
<1>23. CASE Fla!Restart
  <2>1. fwr' = Fla!NoWrite
    BY <1>23 DEF Fla!Restart
  <2> QED BY <1>1, <1>b, <2>1 DEF Fla!NoWrite, Fla!MtdWriteContext
<1>24. CASE Fla!EraseMain \/ Fla!mtd_read_data \/ Fla!DumpUnit \/ Fla!Crash
  BY <1>8, <1>24 DEF Fla!EraseMain, Fla!mtd_read_data, Fla!DumpUnit, Fla!Crash
<1> QED BY <1>11, <1>12, <1>13, <1>14, <1>15, <1>16, <1>17, <1>18, <1>19, <1>20, <1>21, <1>22, <1>23, <1>24
        DEF Fla!Next

\* read_block returns the first readable block that no ECC error hides, or the
\* number of blocks.
LEMMA BlockRead ==
    ASSUME Fla!TypeOK, NEW pos \in 0 .. NBlocks
    PROVE  LET b == Fla!read_block(pos)
           IN  /\ b \in 0 .. NBlocks
               /\ b # NBlocks =>
                     /\ b \in Fla!Blocks /\ b >= pos /\ Fla!Readable(b)
                     /\ \A c \in Fla!Blocks : pos <= c /\ c < b => ~Fla!Readable(c) /\ c \notin eccBad
               /\ b = NBlocks /\ eccBad = {} => \A c \in Fla!Blocks : c >= pos => ~Fla!Readable(c)
<1>1. NBlocks \in Nat /\ NBlocks > 0
  BY FlashSizes
<1>2. eccBad \in SUBSET Fla!Blocks /\ \A c \in Fla!Blocks : c \in Nat /\ c < NBlocks
  BY <1>1 DEF Fla!TypeOK, Fla!DeviceOK, Fla!Blocks
<1> DEFINE ok == {b \in Fla!Blocks : b >= pos /\ Fla!Readable(b)
                              /\ \A c \in eccBad : ~(pos <= c /\ c < b)}
           b == Fla!read_block(pos)
<1>3. b = IF ok = {} THEN NBlocks ELSE CHOOSE x \in ok : \A c \in ok : x <= c
  BY DEF Fla!read_block
<1>4. ok \in SUBSET Nat
  BY <1>2
<1>5. \A x \in ok : x \in Fla!Blocks /\ x >= pos /\ Fla!Readable(x) /\ \A c \in eccBad : ~(pos <= c /\ c < x)
  OBVIOUS
<1>6. \A x \in Fla!Blocks : x >= pos /\ Fla!Readable(x) /\ (\A c \in eccBad : ~(pos <= c /\ c < x)) => x \in ok
  OBVIOUS
<1> HIDE DEF ok, b
<1>7. CASE ok = {}
  <2>1. b = NBlocks
    BY <1>3, <1>7
  <2>2. NBlocks \in 0 .. NBlocks
    BY <1>1
  <2> QED BY <1>6, <1>7, <2>1, <2>2 DEF b
<1>8. CASE ok # {}
  <2>1. \E x \in ok : \A c \in ok : x <= c
    BY <1>4, <1>8, LeastNumber
  <2>2. b \in ok /\ \A c \in ok : b <= c
    BY <1>3, <1>8, <2>1
  <2>3. b \in Fla!Blocks /\ b >= pos /\ Fla!Readable(b) /\ \A c \in eccBad : ~(pos <= c /\ c < b)
    BY <1>5, <2>2
  <2>4. b \in 0 .. NBlocks /\ b # NBlocks
    BY <1>1, <1>2, <2>3
  <2>5. ASSUME NEW c \in Fla!Blocks, pos <= c, c < b PROVE ~Fla!Readable(c) /\ c \notin eccBad
    <3>1. c \notin eccBad
      BY <2>3, <2>5
    <3>2. c \notin ok
      BY <1>2, <2>2, <2>3, <2>5
    <3>3. \A e \in eccBad : ~(pos <= e /\ e < c)
      BY <1>2, <2>3, <2>5
    <3>4. c >= pos
      BY <1>2, <2>5
    <3> QED BY <1>6, <3>1, <3>2, <3>3, <3>4
  <2> QED BY <2>3, <2>4, <2>5 DEF b
<1> QED BY <1>7, <1>8

\* Every step keeps the types.
LEMMA FlashTypes ==
    ASSUME Fla!TypeOK, Fla!ProgramsOrdered, Fla!Next
    PROVE  Fla!TypeOK'
<1>1. NBlocks \in Nat /\ BlockUnits \in Nat
  BY FlashSizes
<1>2. fp' \in 0 .. Len(img')
  <2>1. fp \in 0 .. Len(img) /\ img \in Seq(Int) /\ Len(img) > 0
    BY DEF Fla!TypeOK, Fla!DeviceOK
  <2>2. img' = img /\ (fp' = fp \/ fp' \in {0, 1} \/ (fp < Len(img) /\ fp' = fp + 1))
    BY DEF Fla!Next, Fla!Scan, Fla!FlashCheck, Fla!FlashMain, Fla!RawMain, Fla!CopyUnit, Fla!EraseMain,
           Fla!mtd_write_data, Fla!BlockMarked, Fla!BlockErase, Fla!BlockProgram, Fla!BlockGiveUp,
           Fla!BlockNoSpace, Fla!OpenErase, Fla!mtd_erase_blocks, Fla!mtd_read_data, Fla!DumpUnit,
           Fla!Restart, Fla!Crash
  <2> QED BY <2>1, <2>2
<1>3. frd' \in Fla!MtdReadContext /\ fout' \in Seq(Int)
  <2>1. frd \in Fla!MtdReadContext /\ fout \in Seq(Int) /\ frd.pos \in 0 .. NBlocks /\ frd.buf \in Seq(Int)
    BY ContextParts DEF Fla!TypeOK
  <2>2. CASE Fla!mtd_read_data
    <3> DEFINE b == Fla!read_block(frd.pos)
    <3>1. b \in 0 .. NBlocks /\ (b # NBlocks => b \in Fla!Blocks)
      BY <2>1, BlockRead
    <3>2. fout' = fout /\ (frd' = frd \/ (b # NBlocks /\ frd' = [pos |-> b + 1, buf |-> flash[b]]))
      BY <2>2 DEF Fla!mtd_read_data
    <3> HIDE DEF b
    <3>3. b # NBlocks => b + 1 \in 0 .. NBlocks /\ flash[b] \in [1 .. BlockUnits -> Int]
      BY <1>1, <3>1 DEF Fla!TypeOK, Fla!DeviceOK, Fla!Blocks
    <3>4. b # NBlocks => flash[b] \in Seq(Int)
      BY <1>1, <3>3
    <3> QED BY <2>1, <3>2, <3>3, <3>4 DEF Fla!MtdReadContext
  <2>3. CASE Fla!DumpUnit
    <3>1. frd' = frd \/ frd' = [frd EXCEPT !.buf = Tail(frd.buf)]
      BY <2>3 DEF Fla!DumpUnit
    <3>2. frd.buf # <<>> /\ (fout' = Append(fout, Head(frd.buf)) \/ fout' = <<>>)
      BY <2>3 DEF Fla!DumpUnit
    <3>3. Head(frd.buf) \in Int /\ Tail(frd.buf) \in Seq(Int)
      BY <2>1, <3>2
    <3>4. frd' \in Fla!MtdReadContext
      BY <2>1, <3>1, <3>3 DEF Fla!MtdReadContext
    <3>5. fout' \in Seq(Int)
      <4>1. Append(fout, Head(frd.buf)) \in Seq(Int) /\ <<>> \in Seq(Int)
        BY <2>1, <3>3
      <4> QED BY <3>2, <4>1
    <3> QED BY <3>4, <3>5
  <2>4. CASE Fla!Scan \/ Fla!Restart
    <3>1. /\ frd' = frd \/ frd' = [pos |-> 0, buf |-> <<>>]
          /\ fout' = fout \/ fout' = <<>>
      BY <2>4 DEF Fla!Scan, Fla!Restart
    <3>2. 0 \in 0 .. NBlocks /\ <<>> \in Seq(Int)
      BY <1>1
    <3>3. [pos |-> 0, buf |-> <<>>] \in Fla!MtdReadContext
      BY <3>2 DEF Fla!MtdReadContext
    <3> QED BY <2>1, <3>1, <3>2, <3>3
  <2>5. CASE UNCHANGED <<frd, fout>>
    BY <2>1, <2>5
  <2> QED BY <2>2, <2>3, <2>4, <2>5
          DEF Fla!Next, Fla!FlashCheck, Fla!FlashMain, Fla!RawMain, Fla!EraseMain,
              Fla!mtd_write_data, Fla!BlockMarked, Fla!BlockErase, Fla!BlockProgram, Fla!BlockGiveUp,
              Fla!BlockNoSpace, Fla!OpenErase, Fla!mtd_erase_blocks, Fla!Crash
<1> QED BY <1>2, <1>3, ControlTypes, DeviceTypes, WriterTypes DEF Fla!TypeOK

-----------------------------------------------------------------------------
(* Flash: control                                                          *)

\* A context that mtd_write_partition has just opened.
LEMMA ContextOpened ==
    ASSUME Fla!TypeOK, NEW u, Fla!mtd_write_partition(u, "main")
    PROVE  /\ fwr'.fd = 0 /\ fwr'.stored = <<>> /\ fwr'.todo = u /\ fwr'.bad = <<>> /\ fwr'.n = 0
           /\ ~fwr'.failed
<1>1. fwr \in Fla!MtdWriteContext
  BY DEF Fla!TypeOK
<1> QED BY <1>1 DEF Fla!mtd_write_partition, Fla!NoWrite, Fla!MtdWriteContext

\* A unit of the file is handed to mtd_write_data.
LEMMA UnitCopied ==
    ASSUME Fla!TypeOK, Fla!CopyUnit
    PROVE  /\ fwr'.fd = fwr.fd /\ fwr'.pos = fwr.pos /\ fwr'.stored = fwr.stored
           /\ fwr'.todo = <<img[fp + 1]>> /\ fwr'.bad = fwr.bad /\ fwr'.n = fwr.n
           /\ fwr'.failed = fwr.failed
<1>1. fwr \in Fla!MtdWriteContext
  BY DEF Fla!TypeOK
<1> QED BY <1>1 DEF Fla!CopyUnit, Fla!MtdWriteContext

\* mtd_erase_blocks is called with a count.
LEMMA CountSet ==
    ASSUME Fla!TypeOK, NEW x, fwr' = [fwr EXCEPT !.n = x]
    PROVE  /\ fwr'.fd = fwr.fd /\ fwr'.pos = fwr.pos /\ fwr'.stored = fwr.stored
           /\ fwr'.todo = fwr.todo /\ fwr'.bad = fwr.bad /\ fwr'.n = x
           /\ fwr'.failed = fwr.failed
<1>1. fwr \in Fla!MtdWriteContext
  BY DEF Fla!TypeOK
<1> QED BY <1>1 DEF Fla!MtdWriteContext

\* mtd_write_data hands a block to write_block.
LEMMA BlockHanded ==
    ASSUME Fla!TypeOK, NEW d, NEW s, NEW t, Fla!WriteBlockOf(d, s, t)
    PROVE  /\ fpc' = "block" /\ fwr'.pos = fwr.fd /\ fwr'.stored = s /\ fwr'.todo = t
           /\ fwr'.data = d /\ fwr'.bad = fwr.bad /\ fwr'.n = fwr.n /\ fwr'.ret = "write"
           /\ fwr'.failed = fwr.failed
<1>1. fwr \in Fla!MtdWriteContext
  BY DEF Fla!TypeOK
<1> QED BY <1>1 DEF Fla!WriteBlockOf, Fla!MtdWriteContext

\* mtd_erase_blocks hands the last units, padded, to write_block.
LEMMA PadHanded ==
    ASSUME Fla!TypeOK, NEW x, Fla!Pad(x)
    PROVE  LET buf == fwr.stored \o [i \in 1 .. BlockUnits - Len(fwr.stored) |-> Fla!Zero] IN
           /\ fwr.stored # <<>>
           /\ fpc' = "block" /\ fwr'.pos = fwr.fd /\ fwr'.stored = buf /\ fwr'.data = buf
           /\ fwr'.todo = fwr.todo /\ fwr'.bad = fwr.bad /\ fwr'.n = fwr.n /\ fwr'.ret = x
           /\ fwr'.failed = fwr.failed
<1>0. fwr \in Fla!MtdWriteContext
  BY DEF Fla!TypeOK
<1> DEFINE buf == fwr.stored \o [i \in 1 .. BlockUnits - Len(fwr.stored) |-> Fla!Zero]
<1>1. /\ fwr.stored # <<>> /\ fpc' = "block"
      /\ fwr' = [fwr EXCEPT !.data = buf, !.stored = buf, !.pos = fwr.fd, !.try = 0, !.ret = x]
  BY DEF Fla!Pad
<1> HIDE DEF buf
<1>2. /\ fwr.stored # <<>>
      /\ fpc' = "block" /\ fwr'.pos = fwr.fd /\ fwr'.stored = buf /\ fwr'.data = buf
      /\ fwr'.todo = fwr.todo /\ fwr'.bad = fwr.bad /\ fwr'.n = fwr.n /\ fwr'.ret = x
      /\ fwr'.failed = fwr.failed
  BY <1>0, <1>1 DEF Fla!MtdWriteContext
<1> QED BY <1>2 DEF buf

\* write_block passes over a marked block.
LEMMA BlockMarkedStep ==
    ASSUME Fla!TypeOK, Fla!BlockMarked
    PROVE  /\ fwr'.fd = fwr.fd /\ fwr'.pos = fwr.pos + 1 /\ fwr'.stored = fwr.stored
           /\ fwr'.todo = fwr.todo /\ fwr'.data = fwr.data /\ fwr'.bad = Append(fwr.bad, fwr.pos)
           /\ fwr'.n = fwr.n /\ fwr'.ret = fwr.ret /\ fwr'.failed = fwr.failed
<1>1. fwr \in Fla!MtdWriteContext
  BY DEF Fla!TypeOK
<1> QED BY <1>1 DEF Fla!BlockMarked, Fla!MtdWriteContext

\* write_block erases, or fails to.
LEMMA BlockEraseStep ==
    ASSUME Fla!TypeOK, Fla!BlockErase
    PROVE  /\ fwr'.fd = fwr.fd /\ fwr'.pos = fwr.pos /\ fwr'.stored = fwr.stored
           /\ fwr'.todo = fwr.todo /\ fwr'.data = fwr.data /\ fwr'.bad = fwr.bad
           /\ fwr'.n = fwr.n /\ fwr'.ret = fwr.ret /\ fwr'.failed = fwr.failed
<1>1. fwr \in Fla!MtdWriteContext
  BY DEF Fla!TypeOK
<1> QED BY <1>1 DEF Fla!BlockErase, Fla!MtdWriteContext

\* write_block programs a block, which is right or has to be tried again.
LEMMA BlockProgramStep ==
    ASSUME Fla!TypeOK, Fla!BlockProgram
    PROVE  /\ \/ /\ fpc' = fwr.ret /\ fwr'.fd = fwr.pos + 1 /\ fwr'.stored = <<>>
                 /\ flash' = [flash EXCEPT ![fwr.pos] = fwr.data]
              \/ /\ fpc' = "block" /\ fwr'.stored = fwr.stored
                 /\ flash' = [flash EXCEPT ![fwr.pos] = Fla!Junk]
           /\ fwr'.pos = fwr.pos /\ fwr'.todo = fwr.todo /\ fwr'.data = fwr.data
           /\ fwr'.bad = fwr.bad /\ fwr'.n = fwr.n /\ fwr'.ret = fwr.ret
           /\ fwr'.failed = fwr.failed
<1>0. fwr \in Fla!MtdWriteContext
  BY DEF Fla!TypeOK
<1>1. CASE /\ fpc' = fwr.ret /\ fwr' = [fwr EXCEPT !.fd = fwr.pos + 1, !.stored = <<>>, !.try = 0]
           /\ flash' = [flash EXCEPT ![fwr.pos] = fwr.data]
  BY <1>0, <1>1 DEF Fla!MtdWriteContext
<1>2. CASE /\ fpc' = "block" /\ flash' = [flash EXCEPT ![fwr.pos] = Fla!Junk]
           /\ \E back \in {fwr.pos, fwr.pos + 1} : fwr' = [fwr EXCEPT !.try = @ + 1, !.fd = back]
  BY <1>0, <1>2 DEF Fla!MtdWriteContext
<1> QED BY <1>1, <1>2 DEF Fla!BlockProgram

\* write_block gives a block up.
LEMMA BlockGiveUpStep ==
    ASSUME Fla!TypeOK, Fla!BlockGiveUp
    PROVE  /\ fwr'.fd = fwr.fd /\ fwr'.pos = fwr.pos + 1 /\ fwr'.stored = fwr.stored
           /\ fwr'.todo = fwr.todo /\ fwr'.data = fwr.data /\ fwr'.bad = Append(fwr.bad, fwr.pos)
           /\ fwr'.n = fwr.n /\ fwr'.ret = fwr.ret /\ fwr'.failed = fwr.failed
<1>0. fwr \in Fla!MtdWriteContext
  BY DEF Fla!TypeOK
<1>1. fwr' = [fwr EXCEPT !.bad = Append(fwr.bad, fwr.pos), !.pos = fwr.pos + 1, !.try = 0]
  BY DEF Fla!BlockGiveUp
<1> QED BY <1>0, <1>1 DEF Fla!MtdWriteContext

\* write_block has no block left.
LEMMA BlockNoSpaceStep ==
    ASSUME Fla!TypeOK, Fla!BlockNoSpace
    PROVE  /\ fwr'.fd = fwr.fd /\ fwr'.stored = fwr.stored /\ fwr'.bad = fwr.bad /\ fwr'.n = fwr.n
           /\ IF fpc' = "main" /\ fwr.ret = "write" THEN fwr'.failed ELSE fwr'.failed = fwr.failed
<1>0. fwr \in Fla!MtdWriteContext
  BY DEF Fla!TypeOK
<1>1. IF fpc' = "main" /\ fwr.ret = "write" THEN fwr' = [fwr EXCEPT !.failed = TRUE, !.todo = <<>>]
      ELSE fwr' = fwr
  BY DEF Fla!BlockNoSpace, Fla!Exit
<1> QED BY <1>0, <1>1 DEF Fla!MtdWriteContext

\* Every step leaves each program where it may be.
LEMMA FlashControl ==
    ASSUME Fla!TypeOK, Fla!ProgramsOrdered, Fla!Next
    PROVE  Fla!ProgramsOrdered'
<1>1. BlockUnits \in Nat /\ BlockUnits > 0 /\ NBlocks \in Nat
  BY FlashSizes
<1>2. fwr.stored \in Seq(Int) /\ fwr.todo \in Seq(Int) /\ Len(fwr.stored) <= BlockUnits /\ Len(<<>>) = 0
  BY ContextParts DEF Fla!TypeOK
<1>0. fwr \in Fla!MtdWriteContext
  BY DEF Fla!TypeOK
<1>3. Fla!ControlOK
  BY DEF Fla!TypeOK, Fla!ProgramsOrdered, Fla!InBlock, Fla!Writing, Fla!Copying
<1>4. CASE Fla!Scan
  <2>1. fpc = "scan" /\ fp = 0 /\ fwr = Fla!NoWrite /\ tool' = tool /\ hist' = hist /\ fexit = "none"
    BY <1>4 DEF Fla!Scan, Fla!ProgramsOrdered, Fla!InBlock, Fla!Writing, Fla!Copying
  <2>2. Len(fwr.stored) = 0 /\ fwr.stored = <<>> /\ fwr.bad = <<>> /\ fwr.n = 0 /\ ~fwr.failed
    BY <2>1 DEF Fla!NoWrite, Fla!ProgramsOrdered, Fla!InBlock, Fla!Writing, Fla!Copying
  <2>3. CASE fpc' = "end" /\ UNCHANGED <<phase, fwr>>
    BY <2>1, <2>2, <2>3 DEF Fla!ProgramsOrdered, Fla!InBlock, Fla!Writing, Fla!Copying
  <2>4. CASE tool = "flash" /\ fpc' = "check" /\ fp' = 1 /\ UNCHANGED <<phase, fwr, fexit>>
    BY <2>1, <2>2, <2>4 DEF Fla!ProgramsOrdered, Fla!InBlock, Fla!Writing, Fla!Copying
  <2>5. CASE /\ tool = "raw" /\ Fla!mtd_write_partition(<<>>, "main")
             /\ fpc' = "main" /\ phase' = "body" /\ UNCHANGED fexit
    <3>1. fwr'.stored = <<>> /\ fwr'.n = 0 /\ ~fwr'.failed /\ fwr'.bad = <<>>
      BY <2>5, ContextOpened
    <3> QED BY <1>1, <1>2, <2>1, <2>5, <3>1 DEF Fla!ProgramsOrdered, Fla!InBlock, Fla!Writing, Fla!Copying
  <2>6. CASE /\ tool = "erase" /\ Fla!mtd_write_partition(<<>>, "main")
             /\ fpc' = "open_erase" /\ phase' = "tail" /\ UNCHANGED fexit
    <3>1. fwr'.stored = <<>> /\ fwr'.n = 0 /\ ~fwr'.failed /\ fwr'.bad = <<>>
      BY <2>6, ContextOpened
    <3> QED BY <1>1, <1>2, <2>1, <2>6, <3>1 DEF Fla!ProgramsOrdered, Fla!InBlock, Fla!Writing, Fla!Copying
  <2>7. CASE tool = "dump" /\ fpc' = "dump" /\ UNCHANGED <<phase, fwr, fexit>>
    BY <2>1, <2>2, <2>7 DEF Fla!ProgramsOrdered, Fla!InBlock, Fla!Writing, Fla!Copying
  <2> QED BY <1>4, <2>3, <2>4, <2>5, <2>6, <2>7 DEF Fla!Scan, Fla!Exit, Fla!ProgramsOrdered, Fla!InBlock, Fla!Writing, Fla!Copying
<1>5. CASE Fla!FlashCheck
  <2>1. fpc = "check" /\ tool = "flash" /\ tool' = tool /\ hist' = hist /\ fexit = "none" /\ hist \subseteq {"gave_up"}
    BY <1>5 DEF Fla!FlashCheck, Fla!ProgramsOrdered, Fla!InBlock, Fla!Writing, Fla!Copying
  <2>2. CASE fpc' = "end" /\ UNCHANGED <<phase, fwr>>
    BY <2>1, <2>2 DEF Fla!ProgramsOrdered, Fla!InBlock, Fla!Writing, Fla!Copying
  <2>3. CASE /\ Fla!mtd_write_partition(<<Fla!Zero>>, "main")
             /\ fpc' = "write" /\ phase' = "zero" /\ UNCHANGED fexit
    <3>1. fwr'.stored = <<>> /\ fwr'.n = 0 /\ ~fwr'.failed
      BY <2>3, ContextOpened
    <3> QED BY <1>1, <1>2, <2>1, <2>3, <3>1 DEF Fla!ProgramsOrdered, Fla!InBlock, Fla!Writing, Fla!Copying
  <2> QED BY <1>5, <2>2, <2>3 DEF Fla!FlashCheck, Fla!Exit, Fla!ProgramsOrdered, Fla!InBlock, Fla!Writing, Fla!Copying
<1>6. CASE Fla!FlashMain
  <2>1. fpc = "main" /\ tool = "flash" /\ tool' = tool /\ hist' = hist /\ hist \subseteq {"gave_up"}
        /\ fexit = "none" /\ ~fwr.failed /\ fwr.n = 0
    BY <1>6 DEF Fla!FlashMain, Fla!ProgramsOrdered, Fla!InBlock, Fla!Writing, Fla!Copying
  <2>2. CASE phase \in {"zero", "body", "rest"} /\ Fla!CopyUnit
    <3>1. /\ fpc' = "write" /\ UNCHANGED <<phase, fexit>>
          /\ fwr'.stored = fwr.stored /\ fwr'.n = fwr.n /\ fwr'.failed = fwr.failed
      BY <2>2, UnitCopied DEF Fla!CopyUnit
    <3> QED BY <2>1, <2>2, <3>1 DEF Fla!ProgramsOrdered, Fla!InBlock, Fla!Writing, Fla!Copying
  <2>3. CASE /\ fpc' = "erase" /\ phase' \in {"close", "seal"}
             /\ fwr' = [fwr EXCEPT !.n = 0] /\ UNCHANGED fexit
    <3>1. fwr'.n = 0 /\ fwr'.failed = fwr.failed
      BY <2>3, CountSet
    <3> QED BY <2>1, <2>3, <3>1 DEF Fla!ProgramsOrdered, Fla!InBlock, Fla!Writing, Fla!Copying
  <2>4. CASE Fla!mtd_write_partition(<<Fla!Header>>, "main") /\ fpc' = "write" /\ phase' = "rest" /\ UNCHANGED fexit
    <3>1. fwr'.stored = <<>> /\ fwr'.n = 0 /\ ~fwr'.failed
      BY <2>4, ContextOpened
    <3> QED BY <1>1, <1>2, <2>1, <2>4, <3>1 DEF Fla!ProgramsOrdered, Fla!InBlock, Fla!Writing, Fla!Copying
  <2>5. CASE fpc' = "end" /\ UNCHANGED <<phase, fwr>>
    BY <2>1, <2>5 DEF Fla!ProgramsOrdered, Fla!InBlock, Fla!Writing, Fla!Copying
  <2> QED BY <1>6, <2>2, <2>3, <2>4, <2>5 DEF Fla!FlashMain, Fla!Exit, Fla!ProgramsOrdered, Fla!InBlock, Fla!Writing, Fla!Copying
<1>7. CASE Fla!RawMain
  <2>1. fpc = "main" /\ tool = "raw" /\ tool' = tool /\ fexit = "none" /\ phase # "seal"
    BY <1>7 DEF Fla!RawMain, Fla!ProgramsOrdered, Fla!InBlock, Fla!Writing, Fla!Copying
  <2>2. CASE phase = "body" /\ ~fwr.failed /\ Fla!CopyUnit
    <3>1. /\ fpc' = "write" /\ UNCHANGED <<phase, fexit>>
          /\ fwr'.stored = fwr.stored /\ fwr'.n = fwr.n /\ fwr'.failed = fwr.failed
      BY <2>2, UnitCopied DEF Fla!CopyUnit
    <3> QED BY <2>1, <2>2, <3>1 DEF Fla!ProgramsOrdered, Fla!InBlock, Fla!Writing, Fla!Copying
  <2>3. CASE fpc' = "open_erase" /\ phase' = "tail" /\ UNCHANGED <<fwr, fexit>>
    BY <2>1, <2>3 DEF Fla!ProgramsOrdered, Fla!InBlock, Fla!Writing, Fla!Copying
  <2>4. CASE fpc' = "erase" /\ phase' = "close" /\ fwr' = [fwr EXCEPT !.n = 0] /\ UNCHANGED fexit
    <3>1. fwr'.n = 0
      BY <2>4, CountSet
    <3> QED BY <2>1, <2>4, <3>1 DEF Fla!ProgramsOrdered, Fla!InBlock, Fla!Writing, Fla!Copying
  <2>5. CASE fpc' = "end" /\ UNCHANGED <<phase, fwr>>
    BY <2>1, <2>5 DEF Fla!ProgramsOrdered, Fla!InBlock, Fla!Writing, Fla!Copying
  <2> QED BY <1>7, <2>2, <2>3, <2>4, <2>5 DEF Fla!RawMain, Fla!Exit, Fla!ProgramsOrdered, Fla!InBlock, Fla!Writing, Fla!Copying
<1>8. CASE Fla!EraseMain
  BY <1>8 DEF Fla!EraseMain, Fla!Exit, Fla!ProgramsOrdered, Fla!InBlock, Fla!Writing, Fla!Copying
<1>9. CASE Fla!mtd_write_data
  <2>1. fpc = "write" /\ UNCHANGED <<tool, hist, fexit, phase>> /\ ~fwr.failed /\ fexit = "none"
        /\ tool \in {"flash", "raw"}
    BY <1>9 DEF Fla!mtd_write_data, Fla!ProgramsOrdered, Fla!InBlock, Fla!Writing, Fla!Copying
  <2>2. ASSUME NEW d, NEW s, NEW t, Fla!WriteBlockOf(d, s, t), Len(d) = BlockUnits PROVE Fla!ProgramsOrdered'
    <3>1. /\ fpc' = "block" /\ fwr'.data = d /\ fwr'.n = fwr.n /\ fwr'.ret = "write" /\ fwr'.failed = fwr.failed
      BY <2>2, BlockHanded
    <3> QED BY <2>1, <2>2, <3>1 DEF Fla!ProgramsOrdered, Fla!InBlock, Fla!Writing, Fla!Copying
  <2>3. CASE /\ fwr.todo # <<>> /\ (fwr.stored # <<>> \/ Len(fwr.todo) < BlockUnits)
             /\ LET room == BlockUnits - Len(fwr.stored)
                    n    == IF Len(fwr.todo) < room THEN Len(fwr.todo) ELSE room
                    buf  == fwr.stored \o SubSeq(fwr.todo, 1, n)
                    rest == SubSeq(fwr.todo, n + 1, Len(fwr.todo))
                IN  IF Len(buf) = BlockUnits THEN Fla!WriteBlockOf(buf, buf, rest)
                    ELSE fwr' = [fwr EXCEPT !.stored = buf, !.todo = rest] /\ fpc' = fpc
    <3> DEFINE room == BlockUnits - Len(fwr.stored)
               n    == IF Len(fwr.todo) < room THEN Len(fwr.todo) ELSE room
               buf  == fwr.stored \o SubSeq(fwr.todo, 1, n)
               rest == SubSeq(fwr.todo, n + 1, Len(fwr.todo))
    <3>1. IF Len(buf) = BlockUnits THEN Fla!WriteBlockOf(buf, buf, rest)
          ELSE fwr' = [fwr EXCEPT !.stored = buf, !.todo = rest] /\ fpc' = fpc
      BY <2>3 DEF Fla!ProgramsOrdered, Fla!InBlock, Fla!Writing, Fla!Copying
    <3>2. Len(fwr'.stored) <= BlockUnits
      BY WriterTypes
    <3> HIDE DEF buf, rest
    <3>3. CASE Len(buf) = BlockUnits
      BY <2>2, <3>1, <3>3 DEF Fla!ProgramsOrdered, Fla!InBlock, Fla!Writing, Fla!Copying
    <3>4. CASE Len(buf) # BlockUnits
      <4>1. fpc' = fpc /\ fwr'.n = fwr.n /\ fwr'.failed = fwr.failed /\ fwr'.stored = buf
        BY <1>0, <3>1, <3>4 DEF Fla!MtdWriteContext
      <4>2. Len(fwr'.stored) \in Nat
        BY WriterTypes DEF Fla!MtdWriteContext
      <4>3. Len(fwr'.stored) < BlockUnits
        BY <1>1, <3>2, <3>4, <4>1, <4>2 DEF Fla!ProgramsOrdered, Fla!InBlock, Fla!Writing, Fla!Copying
      <4> QED BY <2>1, <4>1, <4>3 DEF Fla!ProgramsOrdered, Fla!InBlock, Fla!Writing, Fla!Copying
    <3> QED BY <3>3, <3>4 DEF Fla!ProgramsOrdered, Fla!InBlock, Fla!Writing, Fla!Copying
  <2>4. CASE /\ fwr.stored = <<>> /\ Len(fwr.todo) >= BlockUnits
             /\ Fla!WriteBlockOf(SubSeq(fwr.todo, 1, BlockUnits), <<>>,
                                 SubSeq(fwr.todo, BlockUnits + 1, Len(fwr.todo)))
    <3>1. Len(SubSeq(fwr.todo, 1, BlockUnits)) = BlockUnits
      BY <1>1, <1>2, <2>4 DEF Fla!ProgramsOrdered, Fla!InBlock, Fla!Writing, Fla!Copying
    <3> QED BY <2>2, <2>4, <3>1 DEF Fla!ProgramsOrdered, Fla!InBlock, Fla!Writing, Fla!Copying
  <2>5. CASE fpc' = "main" /\ fwr' = fwr
    BY <2>1, <2>5 DEF Fla!ProgramsOrdered, Fla!InBlock, Fla!Writing, Fla!Copying
  <2> QED BY <1>9, <2>3, <2>4, <2>5 DEF Fla!mtd_write_data, Fla!ProgramsOrdered, Fla!InBlock, Fla!Writing, Fla!Copying
<1>10. CASE Fla!BlockMarked
  <2>1. fpc = "block" /\ UNCHANGED <<tool, fpc, phase, hist, fexit>>
    BY <1>10 DEF Fla!BlockMarked, Fla!ProgramsOrdered, Fla!InBlock, Fla!Writing, Fla!Copying
  <2>2. fwr'.data = fwr.data /\ fwr'.n = fwr.n /\ fwr'.ret = fwr.ret /\ fwr'.failed = fwr.failed
    BY <1>10, BlockMarkedStep
  <2> QED BY <2>1, <2>2 DEF Fla!ProgramsOrdered, Fla!InBlock, Fla!Writing, Fla!Copying
<1>11. CASE Fla!BlockErase
  <2>1. /\ fpc = "block" /\ fpc' \in {"block", "program"} /\ UNCHANGED <<tool, phase, hist, fexit, marked>>
        /\ fwr.pos < NBlocks /\ fwr.pos \notin marked
    BY <1>11 DEF Fla!BlockErase, Fla!ProgramsOrdered, Fla!InBlock, Fla!Writing, Fla!Copying
  <2>2. /\ fwr'.data = fwr.data /\ fwr'.n = fwr.n /\ fwr'.ret = fwr.ret /\ fwr'.failed = fwr.failed
        /\ fwr'.pos = fwr.pos
    BY <1>11, BlockEraseStep
  <2>3. fwr'.pos \in Fla!Good'
    <3>1. fwr.pos \in 0 .. NBlocks
      BY ContextParts
    <3> QED BY <1>1, <2>1, <2>2, <3>1 DEF Fla!Good, Fla!Blocks, Fla!ProgramsOrdered, Fla!InBlock, Fla!Writing, Fla!Copying
  <2>4. /\ Len(fwr.data) = BlockUnits /\ tool \notin {"erase", "dump"} /\ fexit = "none"
        /\ \/ fwr.ret = "write" /\ Fla!Copying /\ ~fwr.failed
           \/ fwr.ret = "erase" /\ fwr.n = 0 /\ tool \in {"flash", "raw"} /\ phase \in {"close", "seal"}
           \/ fwr.ret = "open_erase" /\ tool = "raw" /\ phase = "tail"
        /\ (tool = "raw" => phase # "seal")
        /\ (tool = "flash" => hist \subseteq {"gave_up"} /\ ~fwr.failed /\ fwr.n = 0)
    BY <1>3, <2>1 DEF Fla!ProgramsOrdered, Fla!InBlock, Fla!Writing, Fla!Copying
  <2> QED BY <2>1, <2>2, <2>3, <2>4 DEF Fla!ProgramsOrdered, Fla!InBlock, Fla!Writing, Fla!Copying
<1>12. CASE Fla!BlockProgram
  <2>1. fpc = "program" /\ UNCHANGED <<tool, phase, hist, fexit>>
    BY <1>12 DEF Fla!BlockProgram, Fla!ProgramsOrdered, Fla!InBlock, Fla!Writing, Fla!Copying
  <2>2. /\ fwr'.data = fwr.data /\ fwr'.n = fwr.n /\ fwr'.ret = fwr.ret /\ fwr'.failed = fwr.failed
        /\ \/ fpc' = fwr.ret /\ fwr'.stored = <<>>
           \/ fpc' = "block"
    BY <1>12, BlockProgramStep
  <2>3. Len(fwr'.stored) < BlockUnits \/ fpc' = "block"
    BY <1>1, <1>2, <2>2 DEF Fla!ProgramsOrdered, Fla!InBlock, Fla!Writing, Fla!Copying
  <2>4. /\ Len(fwr.data) = BlockUnits /\ tool \notin {"erase", "dump"} /\ fexit = "none"
        /\ \/ fwr.ret = "write" /\ Fla!Copying /\ ~fwr.failed
           \/ fwr.ret = "erase" /\ fwr.n = 0 /\ tool \in {"flash", "raw"} /\ phase \in {"close", "seal"}
           \/ fwr.ret = "open_erase" /\ tool = "raw" /\ phase = "tail"
        /\ (tool = "raw" => phase # "seal")
        /\ (tool = "flash" => hist \subseteq {"gave_up"} /\ ~fwr.failed /\ fwr.n = 0)
    BY <1>3, <2>1 DEF Fla!ProgramsOrdered, Fla!InBlock, Fla!Writing, Fla!Copying
  <2> QED BY <2>1, <2>2, <2>3, <2>4 DEF Fla!ProgramsOrdered, Fla!InBlock, Fla!Writing, Fla!Copying
<1>13. CASE Fla!BlockGiveUp
  <2>1. fpc = "block" /\ UNCHANGED <<tool, fpc, phase, fexit>> /\ hist' = hist \cup {"gave_up"}
    BY <1>13 DEF Fla!BlockGiveUp, Fla!ProgramsOrdered, Fla!InBlock, Fla!Writing, Fla!Copying
  <2>2. fwr'.data = fwr.data /\ fwr'.n = fwr.n /\ fwr'.ret = fwr.ret /\ fwr'.failed = fwr.failed
    BY <1>13, BlockGiveUpStep
  <2> QED BY <2>1, <2>2 DEF Fla!ProgramsOrdered, Fla!InBlock, Fla!Writing, Fla!Copying
<1>14. CASE Fla!BlockNoSpace
  <2>1. fpc = "block" /\ UNCHANGED <<tool, phase>> /\ fexit = "none"
    BY <1>14 DEF Fla!BlockNoSpace, Fla!ProgramsOrdered, Fla!InBlock, Fla!Writing, Fla!Copying
  <2>2. CASE tool = "flash"
    <3>1. fpc' = "end" /\ UNCHANGED <<fwr, hist>>
      BY <1>14, <2>2 DEF Fla!BlockNoSpace, Fla!Exit, Fla!ProgramsOrdered, Fla!InBlock, Fla!Writing, Fla!Copying
    <3> QED BY <2>1, <2>2, <3>1 DEF Fla!ProgramsOrdered, Fla!InBlock, Fla!Writing, Fla!Copying
  <2>3. CASE tool # "flash"
    <3>1. fpc' = "main" /\ UNCHANGED fexit
      BY <1>14, <2>3 DEF Fla!BlockNoSpace, Fla!ProgramsOrdered, Fla!InBlock, Fla!Writing, Fla!Copying
    <3>2. fwr.ret = "write" => fwr'.failed
      BY <1>14, <3>1, BlockNoSpaceStep
    <3>3. tool = "raw"
      BY <1>3, <2>1, <2>3 DEF Fla!ControlOK, Fla!ProgramsOrdered, Fla!InBlock
    <3> QED BY <2>1, <2>3, <3>1, <3>2, <3>3 DEF Fla!ProgramsOrdered, Fla!InBlock, Fla!Writing, Fla!Copying
  <2> QED BY <2>2, <2>3 DEF Fla!ProgramsOrdered, Fla!InBlock, Fla!Writing, Fla!Copying
<1>15. CASE Fla!OpenErase
  <2>1. fpc = "open_erase" /\ UNCHANGED <<tool, phase, hist, fexit>> /\ tool \in {"raw", "erase"} /\ phase = "tail"
        /\ fexit = "none" /\ (tool = "erase" => fwr.bad = <<>> /\ fwr.stored = <<>>)
    BY <1>15 DEF Fla!OpenErase, Fla!ProgramsOrdered, Fla!InBlock, Fla!Writing, Fla!Copying
  <2>2. CASE Fla!Pad("open_erase")
    <3>1. fwr.stored # <<>> /\ fpc' = "block" /\ fwr'.ret = "open_erase"
          /\ fwr'.data = fwr.stored \o [i \in 1 .. BlockUnits - Len(fwr.stored) |-> Fla!Zero]
      BY <2>2, PadHanded
    <3>2. Len(fwr'.data) = BlockUnits
      BY <1>2, <3>1, Padded
    <3> QED BY <2>1, <3>1, <3>2 DEF Fla!ProgramsOrdered, Fla!InBlock, Fla!Writing, Fla!Copying
  <2>3. CASE fwr.stored = <<>> /\ fpc' = "erase" /\ fwr' = [fwr EXCEPT !.n = NBlocks - fwr.fd, !.pos = fwr.fd]
    <3>1. fwr'.stored = <<>> /\ fwr'.n = NBlocks - fwr'.pos /\ fwr'.bad = fwr.bad
      BY <1>0, <2>3 DEF Fla!MtdWriteContext
    <3> QED BY <2>1, <2>3, <3>1 DEF Fla!ProgramsOrdered, Fla!InBlock, Fla!Writing, Fla!Copying
  <2> QED BY <1>15, <2>2, <2>3 DEF Fla!OpenErase, Fla!ProgramsOrdered, Fla!InBlock, Fla!Writing, Fla!Copying
<1>16. CASE Fla!mtd_erase_blocks
  <2>1. fpc = "erase" /\ UNCHANGED <<tool, phase, fexit>> /\ fexit = "none"
        /\ (tool = "flash" => hist' = hist \/ fwr.n > 0)
    BY <1>16 DEF Fla!mtd_erase_blocks, Fla!ProgramsOrdered, Fla!InBlock, Fla!Writing, Fla!Copying
  <2>2. CASE Fla!Pad("erase") /\ UNCHANGED hist
    <3>1. fwr.stored # <<>> /\ fpc' = "block" /\ fwr'.ret = "erase" /\ fwr'.n = fwr.n /\ fwr'.failed = fwr.failed
          /\ fwr'.data = fwr.stored \o [i \in 1 .. BlockUnits - Len(fwr.stored) |-> Fla!Zero]
      BY <2>2, PadHanded
    <3>2. Len(fwr'.data) = BlockUnits
      BY <1>2, <3>1, Padded
    <3> QED BY <2>1, <2>2, <3>1, <3>2 DEF Fla!ProgramsOrdered, Fla!InBlock, Fla!Writing, Fla!Copying
  <2>3. CASE fpc' = "main" /\ UNCHANGED <<fwr, hist>>
    BY <2>1, <2>3 DEF Fla!ProgramsOrdered, Fla!InBlock, Fla!Writing, Fla!Copying
  <2>4. CASE fwr.stored = <<>> /\ fwr.n > 0 /\ fwr' = [fwr EXCEPT !.n = fwr.n - 1, !.pos = fwr.pos + 1] /\ fpc' = fpc
    <3>1. fwr'.stored = <<>> /\ fwr'.n = fwr.n - 1 /\ fwr'.pos = fwr.pos + 1 /\ fwr'.bad = fwr.bad
      BY <1>0, <2>4 DEF Fla!MtdWriteContext
    <3>2. fwr.n = NBlocks - fwr.pos /\ tool # "flash" /\ phase = "tail"
      BY <2>1, <2>4 DEF Fla!ProgramsOrdered, Fla!InBlock, Fla!Writing, Fla!Copying
    <3>3. fwr'.n = NBlocks - fwr'.pos
      <4>1. fwr.pos \in 0 .. NBlocks
        BY ContextParts
      <4> QED BY <1>1, <3>1, <3>2, <4>1 DEF Fla!ProgramsOrdered, Fla!InBlock, Fla!Writing, Fla!Copying
    <3> QED BY <2>1, <2>4, <3>1, <3>2, <3>3 DEF Fla!ProgramsOrdered, Fla!InBlock, Fla!Writing, Fla!Copying
  <2> QED BY <1>16, <2>2, <2>3, <2>4 DEF Fla!mtd_erase_blocks, Fla!ProgramsOrdered, Fla!InBlock, Fla!Writing, Fla!Copying
<1>17. CASE Fla!mtd_read_data \/ Fla!DumpUnit
  <2>1. fpc = "dump" /\ fpc' \in {"dump", "end"} /\ UNCHANGED <<tool, phase, fwr, hist>> /\ (fpc' = "dump" => fexit' = fexit)
    BY <1>17 DEF Fla!mtd_read_data, Fla!DumpUnit, Fla!Exit, Fla!ProgramsOrdered, Fla!InBlock, Fla!Writing, Fla!Copying
  <2> QED BY <2>1 DEF Fla!ProgramsOrdered, Fla!InBlock, Fla!Writing, Fla!Copying
<1>18. CASE Fla!Restart
  <2>1. fpc = "down" /\ fpc' = "scan" /\ fp' = 0 /\ fwr' = Fla!NoWrite /\ Fla!NoWrite' = Fla!NoWrite
        /\ UNCHANGED <<tool, hist, fexit>> /\ phase' = "none"
    BY <1>18 DEF Fla!Restart, Fla!NoWrite, Fla!ProgramsOrdered, Fla!InBlock, Fla!Writing, Fla!Copying
  <2>2. fwr'.bad = <<>> /\ fwr'.stored = <<>> /\ fwr'.n = 0 /\ ~fwr'.failed
    BY <2>1 DEF Fla!NoWrite, Fla!ProgramsOrdered, Fla!InBlock, Fla!Writing, Fla!Copying
  <2> QED BY <2>1, <2>2 DEF Fla!ProgramsOrdered, Fla!InBlock, Fla!Writing, Fla!Copying
<1>19. CASE Fla!Crash
  <2>1. fpc' = "down" /\ crashes' = crashes + 1 /\ UNCHANGED <<tool, hist, fexit, phase, fwr>> /\ fexit = "none"
    BY <1>19 DEF Fla!Crash, Fla!ProgramsOrdered
  <2>2. crashes' > 0
    BY <1>3, <2>1 DEF Fla!ControlOK, Fla!ProgramsOrdered, Fla!InBlock, Fla!Writing, Fla!Copying
  <2> QED BY <2>1, <2>2 DEF Fla!ProgramsOrdered, Fla!InBlock, Fla!Writing, Fla!Copying
<1> QED BY <1>4, <1>5, <1>6, <1>7, <1>8, <1>9, <1>10, <1>11, <1>12, <1>13, <1>14, <1>15, <1>16, <1>17, <1>18,
           <1>19 DEF Fla!Next

\* Bad blocks are recorded in order.
LEMMA BadInOrder ==
    ASSUME Fla!TypeOK, Fla!ProgramsOrdered, Fla!BadAscending, Fla!Next
    PROVE  Fla!BadAscending'
<1>1. /\ fwr.bad \in Seq(Fla!Blocks) /\ \A b \in Fla!Blocks : b \in Int
      /\ fwr.fd \in Int /\ fwr.pos \in Int /\ fwr.failed \in BOOLEAN
  BY ContextParts DEF Fla!Blocks
<1>2. Fla!Aim \in Int /\ Fla!Aim' \in Int
  <2>1. fwr'.fd \in Int /\ fwr'.pos \in Int
    BY WriterTypes DEF Fla!MtdWriteContext
  <2> QED BY <1>1, <2>1 DEF Fla!Aim
<1>3. ASSUME fwr'.bad = <<>> PROVE Fla!BadAscending'
  <2>1. 1 .. Len(fwr'.bad) = {}
    BY <1>3
  <2> QED BY <2>1 DEF Fla!BadAscending
<1>4. ASSUME fpc' = "end" PROVE Fla!BadAscending'
  BY <1>4 DEF Fla!BadAscending
<1>5. ASSUME fpc \notin {"end", "down"}, fwr'.bad = fwr.bad, fwr'.failed = fwr.failed, hist \subseteq hist',
             fpc' = "down" \/ Fla!Aim <= Fla!Aim'
      PROVE  Fla!BadAscending'
  <2> SUFFICES ASSUME fpc' # "end", ~fwr'.failed, "last" \notin hist'
               PROVE  /\ \A k, l \in 1 .. Len(fwr.bad) : k < l => fwr.bad[k] < fwr.bad[l]
                      /\ fpc' # "down" => \A k \in 1 .. Len(fwr.bad) : fwr.bad[k] < Fla!Aim'
    BY <1>5 DEF Fla!BadAscending
  <2>1. /\ \A k, l \in 1 .. Len(fwr.bad) : k < l => fwr.bad[k] < fwr.bad[l]
        /\ \A k \in 1 .. Len(fwr.bad) : fwr.bad[k] < Fla!Aim
    BY <1>5 DEF Fla!BadAscending
  <2>2. \A k \in 1 .. Len(fwr.bad) : fwr.bad[k] \in Int
    BY <1>1
  <2> QED BY <1>2, <1>5, <2>1, <2>2
<1>6. ASSUME fpc = "block", fpc' = "block", fwr'.bad = Append(fwr.bad, fwr.pos), fwr'.failed = fwr.failed,
             hist \subseteq hist', fwr'.pos = fwr.pos + 1
      PROVE  Fla!BadAscending'
  <2> SUFFICES ASSUME fpc' # "end", ~fwr'.failed, "last" \notin hist'
               PROVE  /\ \A k, l \in 1 .. Len(fwr'.bad) : k < l => fwr'.bad[k] < fwr'.bad[l]
                      /\ \A k \in 1 .. Len(fwr'.bad) : fwr'.bad[k] < Fla!Aim'
    BY DEF Fla!BadAscending
  <2>1. Fla!Aim = fwr.pos /\ Fla!Aim' = fwr.pos + 1
    BY <1>6 DEF Fla!Aim, Fla!InBlock
  <2>2. /\ \A k, l \in 1 .. Len(fwr.bad) : k < l => fwr.bad[k] < fwr.bad[l]
        /\ \A k \in 1 .. Len(fwr.bad) : fwr.bad[k] < fwr.pos
    BY <1>6, <2>1 DEF Fla!BadAscending
  <2>3. \A k \in 1 .. Len(fwr.bad) : fwr.bad[k] \in Int
    BY <1>1
  <2>4. /\ Len(fwr'.bad) = Len(fwr.bad) + 1 /\ Len(fwr.bad) \in Nat
        /\ \A k \in 1 .. Len(fwr.bad) : fwr'.bad[k] = fwr.bad[k]
        /\ fwr'.bad[Len(fwr.bad) + 1] = fwr.pos
    BY <1>1, <1>6
  <2>5. \A k \in 1 .. Len(fwr'.bad) : k \in 1 .. Len(fwr.bad) \/ k = Len(fwr.bad) + 1
    BY <2>4
  <2>6. \A k \in 1 .. Len(fwr'.bad) : fwr'.bad[k] < Fla!Aim'
    <3>1. \A k \in 1 .. Len(fwr.bad) : fwr'.bad[k] < fwr.pos + 1
      BY <1>1, <2>2, <2>3, <2>4
    <3>2. fwr'.bad[Len(fwr.bad) + 1] < fwr.pos + 1
      BY <1>1, <2>4
    <3> QED BY <2>1, <2>5, <3>1, <3>2
  <2>7. \A k, l \in 1 .. Len(fwr'.bad) : k < l => k \in 1 .. Len(fwr.bad)
    BY <2>4
  <2>8. ASSUME NEW k \in 1 .. Len(fwr'.bad), NEW l \in 1 .. Len(fwr'.bad), k < l
        PROVE  fwr'.bad[k] < fwr'.bad[l]
    <3>1. k \in 1 .. Len(fwr.bad) /\ fwr'.bad[k] = fwr.bad[k]
      BY <2>4, <2>7, <2>8
    <3>2. CASE l \in 1 .. Len(fwr.bad)
      BY <2>2, <2>4, <2>8, <3>1, <3>2
    <3>3. CASE l = Len(fwr.bad) + 1
      BY <2>2, <2>4, <3>1, <3>3
    <3> QED BY <2>5, <3>2, <3>3
  <2> QED BY <2>6, <2>8
<1>7. CASE Fla!Scan
  <2>1. \/ fpc' = "end" \/ Fla!mtd_write_partition(<<>>, "main")
        \/ (fpc = "scan" /\ fpc' \in {"check", "dump"} /\ UNCHANGED fwr /\ hist' = hist)
    BY <1>7 DEF Fla!Scan, Fla!Exit
  <2>2. CASE Fla!mtd_write_partition(<<>>, "main")
    BY <1>3, <2>2, ContextOpened
  <2>3. CASE fpc = "scan" /\ fpc' \in {"check", "dump"} /\ UNCHANGED fwr /\ hist' = hist
    <3>1. Fla!Aim' = Fla!Aim
      BY <2>3 DEF Fla!Aim, Fla!InBlock
    <3> QED BY <1>2, <1>5, <2>3, <3>1
  <2> QED BY <1>4, <2>1, <2>2, <2>3
<1>8. CASE Fla!FlashCheck
  <2>1. fpc' = "end" \/ Fla!mtd_write_partition(<<Fla!Zero>>, "main")
    BY <1>8 DEF Fla!FlashCheck, Fla!Exit
  <2>2. CASE Fla!mtd_write_partition(<<Fla!Zero>>, "main")
    BY <1>3, <2>2, ContextOpened
  <2> QED BY <1>4, <2>1, <2>2
<1>9. CASE Fla!FlashMain \/ Fla!RawMain
  <2>1. /\ fpc = "main" /\ hist \subseteq hist'
        /\ \/ fpc' = "end" \/ Fla!mtd_write_partition(<<Fla!Header>>, "main")
           \/ (fpc' = "write" /\ Fla!CopyUnit) \/ (fpc' = "erase" /\ fwr' = [fwr EXCEPT !.n = 0])
           \/ (fpc' = "open_erase" /\ fwr' = fwr)
    BY <1>9 DEF Fla!FlashMain, Fla!RawMain, Fla!Exit, Fla!CopyUnit
  <2>2. CASE Fla!mtd_write_partition(<<Fla!Header>>, "main")
    BY <1>3, <2>2, ContextOpened
  <2>3. CASE fpc' = "write" /\ Fla!CopyUnit
    <3>1. fwr'.bad = fwr.bad /\ fwr'.failed = fwr.failed /\ fwr'.fd = fwr.fd
      BY <2>3, UnitCopied
    <3>2. Fla!Aim' = Fla!Aim
      BY <2>1, <2>3, <3>1 DEF Fla!Aim, Fla!InBlock
    <3> QED BY <1>2, <1>5, <2>1, <3>1, <3>2
  <2>4. CASE fpc' = "erase" /\ fwr' = [fwr EXCEPT !.n = 0]
    <3>1. fwr'.bad = fwr.bad /\ fwr'.failed = fwr.failed /\ fwr'.fd = fwr.fd
      BY <2>4, CountSet
    <3>2. Fla!Aim' = Fla!Aim
      BY <2>1, <2>4, <3>1 DEF Fla!Aim, Fla!InBlock
    <3> QED BY <1>2, <1>5, <2>1, <3>1, <3>2
  <2>5. CASE fpc' = "open_erase" /\ fwr' = fwr
    <3>2. Fla!Aim' = Fla!Aim
      BY <2>1, <2>5 DEF Fla!Aim, Fla!InBlock
    <3> QED BY <1>2, <1>5, <2>1, <2>5, <3>2
  <2> QED BY <1>4, <2>1, <2>2, <2>3, <2>4, <2>5
<1>10. CASE Fla!EraseMain \/ Fla!mtd_read_data \/ Fla!DumpUnit
  <2>1. fpc \in {"main", "dump"} /\ (fpc' = fpc \/ fpc' = "end") /\ UNCHANGED <<fwr, hist>>
    BY <1>10 DEF Fla!EraseMain, Fla!mtd_read_data, Fla!DumpUnit, Fla!Exit
  <2>2. fpc' = fpc => Fla!Aim' = Fla!Aim
    BY <2>1 DEF Fla!Aim, Fla!InBlock
  <2> QED BY <1>2, <1>4, <1>5, <2>1, <2>2
<1>11. CASE Fla!mtd_write_data
  <2>0. fpc = "write" /\ hist \subseteq hist'
    BY <1>11 DEF Fla!mtd_write_data
  <2>1. \/ (fpc' = "main" /\ fwr' = fwr)
        \/ (\E d, s, t : Fla!WriteBlockOf(d, s, t))
        \/ (\E s, t : fwr' = [fwr EXCEPT !.stored = s, !.todo = t] /\ fpc' = "write")
    BY <1>11, Zenon DEF Fla!mtd_write_data
  <2>2. ASSUME fwr'.bad = fwr.bad, fwr'.failed = fwr.failed,
               IF fpc' = "block" THEN fwr'.pos = fwr.fd ELSE fpc' \in {"write", "main"} /\ fwr'.fd = fwr.fd
        PROVE  Fla!BadAscending'
    <3>1. Fla!Aim' = Fla!Aim
      BY <2>0, <2>2 DEF Fla!Aim, Fla!InBlock
    <3>2. fpc \notin {"end", "down"} /\ Fla!Aim <= Fla!Aim'
      BY <1>2, <2>0, <3>1
    <3> QED BY <1>5, <2>0, <2>2, <3>2
  <2>3. ASSUME NEW d, NEW s, NEW t, Fla!WriteBlockOf(d, s, t) PROVE Fla!BadAscending'
    BY <2>2, <2>3, BlockHanded
  <2>4. ASSUME NEW s, NEW t, fwr' = [fwr EXCEPT !.stored = s, !.todo = t], fpc' = "write" PROVE Fla!BadAscending'
    <3>1. fwr'.bad = fwr.bad /\ fwr'.failed = fwr.failed /\ fwr'.fd = fwr.fd
      BY <2>4 DEF Fla!TypeOK, Fla!MtdWriteContext
    <3> QED BY <2>2, <2>4, <3>1
  <2>5. CASE fpc' = "main" /\ fwr' = fwr
    BY <2>2, <2>5
  <2> QED BY <2>1, <2>3, <2>4, <2>5, Zenon
<1>12. CASE Fla!BlockMarked
  BY <1>6, <1>12, BlockMarkedStep DEF Fla!BlockMarked
<1>13. CASE Fla!BlockErase
  <2>1. fpc = "block" /\ fpc' \in {"block", "program"} /\ hist' = hist
    BY <1>13 DEF Fla!BlockErase
  <2>2. fwr'.bad = fwr.bad /\ fwr'.failed = fwr.failed /\ fwr'.pos = fwr.pos
    BY <1>13, BlockEraseStep
  <2>3. Fla!Aim' = Fla!Aim
    BY <2>1, <2>2 DEF Fla!Aim, Fla!InBlock
  <2> QED BY <1>2, <1>5, <2>1, <2>2, <2>3
<1>14. CASE Fla!BlockProgram
  <2>1. fpc = "program" /\ hist' = hist
    BY <1>14 DEF Fla!BlockProgram
  <2>2. /\ fwr'.bad = fwr.bad /\ fwr'.failed = fwr.failed /\ fwr'.pos = fwr.pos
        /\ (fpc' = fwr.ret /\ fwr'.fd = fwr.pos + 1) \/ fpc' = "block"
    BY <1>14, BlockProgramStep
  <2>3. fwr.ret \in {"write", "erase", "open_erase"}
    BY <2>1 DEF Fla!ProgramsOrdered, Fla!InBlock
  <2>4. Fla!Aim <= Fla!Aim'
    BY <1>1, <2>1, <2>2, <2>3 DEF Fla!Aim, Fla!InBlock
  <2> QED BY <1>5, <2>1, <2>2, <2>4
<1>15. CASE Fla!BlockGiveUp
  <2>1. fpc = "block" /\ fpc' = "block" /\ hist \subseteq hist'
    BY <1>15 DEF Fla!BlockGiveUp
  <2> QED BY <1>6, <1>15, <2>1, BlockGiveUpStep
<1>16. CASE Fla!BlockNoSpace
  <2>1. \/ fpc' = "end" \/ "last" \in hist' \/ (fpc' = "main" /\ fwr.ret = "write")
    BY <1>16 DEF Fla!BlockNoSpace, Fla!Exit
  <2>2. (fpc' = "main" /\ fwr.ret = "write") => fwr'.failed
    BY <1>16, BlockNoSpaceStep
  <2> QED BY <2>1, <2>2 DEF Fla!BadAscending
<1>17. CASE Fla!OpenErase \/ Fla!mtd_erase_blocks
  <2>0. fpc \in {"open_erase", "erase"} /\ hist \subseteq hist'
    BY <1>17 DEF Fla!OpenErase, Fla!mtd_erase_blocks
  <2>1. \/ (fpc' = "main" /\ fwr' = fwr)
        \/ (\E x : Fla!Pad(x))
        \/ (\E x, y : fwr' = [fwr EXCEPT !.n = x, !.pos = y] /\ fpc' = "erase")
    BY <1>17, Zenon DEF Fla!OpenErase, Fla!mtd_erase_blocks
  <2>2. ASSUME fwr'.bad = fwr.bad, fwr'.failed = fwr.failed,
               IF fpc' = "block" THEN fwr'.pos = fwr.fd ELSE fpc' \in {"erase", "main"} /\ fwr'.fd = fwr.fd
        PROVE  Fla!BadAscending'
    <3>1. Fla!Aim' = Fla!Aim
      BY <2>0, <2>2 DEF Fla!Aim, Fla!InBlock
    <3>2. fpc \notin {"end", "down"} /\ Fla!Aim <= Fla!Aim'
      BY <1>2, <2>0, <3>1
    <3> QED BY <1>5, <2>0, <2>2, <3>2
  <2>3. ASSUME NEW x, Fla!Pad(x) PROVE Fla!BadAscending'
    BY <2>2, <2>3, PadHanded
  <2>4. ASSUME NEW x, NEW y, fwr' = [fwr EXCEPT !.n = x, !.pos = y], fpc' = "erase" PROVE Fla!BadAscending'
    <3>1. fwr'.bad = fwr.bad /\ fwr'.failed = fwr.failed /\ fwr'.fd = fwr.fd
      BY <2>4 DEF Fla!TypeOK, Fla!MtdWriteContext
    <3> QED BY <2>2, <2>4, <3>1
  <2>5. CASE fpc' = "main" /\ fwr' = fwr
    BY <2>2, <2>5
  <2> QED BY <2>1, <2>3, <2>4, <2>5, Zenon
<1>18. CASE Fla!Restart
  BY <1>3, <1>18 DEF Fla!Restart, Fla!NoWrite
<1>19. CASE Fla!Crash
  BY <1>5, <1>19 DEF Fla!Crash
<1> QED BY <1>7, <1>8, <1>9, <1>10, <1>11, <1>12, <1>13, <1>14, <1>15, <1>16, <1>17, <1>18, <1>19 DEF Fla!Next

\* mtd_find_write_start goes through the list once: while it has not returned,
\* the position is behind the bad blocks that it has met.
LEMMA WriteStart ==
    ASSUME NEW bad \in Seq(Nat), NEW pos \in Nat,
           \A k, l \in 1 .. Len(bad) : k < l => bad[k] < bad[l]
    PROVE  LET q == Fla!mtd_find_write_start(bad, pos)
           IN  /\ q \in Nat /\ q >= pos /\ \A k \in 1 .. Len(bad) : bad[k] # q
               /\ \A x \in Nat : pos <= x /\ x < q => \E k \in 1 .. Len(bad) : bad[k] = x
<1> DEFINE n == Len(bad)
           D == [p : Nat, returned : BOOLEAN]
           start == [p |-> pos, returned |-> FALSE]
           Step(e, b) == IF e.returned \/ b < e.p THEN e
                         ELSE IF b = e.p THEN [p |-> b + 1, returned |-> FALSE]
                         ELSE [p |-> e.p, returned |-> TRUE]
           at[i \in 0 .. Len(bad)] ==
            IF i = 0 THEN [p |-> pos, returned |-> FALSE]
            ELSE IF at[i - 1].returned \/ bad[i] < at[i - 1].p THEN at[i - 1]
            ELSE IF bad[i] = at[i - 1].p THEN [p |-> bad[i] + 1, returned |-> FALSE]
            ELSE [p |-> at[i - 1].p, returned |-> TRUE]
<1>1. Fla!mtd_find_write_start(bad, pos) = at[Len(bad)].p
  BY DEF Fla!mtd_find_write_start
<1>2. n \in Nat /\ \A i \in 1 .. n : bad[i] \in Nat
  OBVIOUS
<1>3. start \in D /\ \A e \in D, b \in Nat : Step(e, b) \in D
  OBVIOUS
<1> HIDE DEF D, start, Step
<1>4. \E f \in [0 .. n -> D] : f[0] = start /\ \A i \in 1 .. n : f[i] = Step(f[i - 1], bad[i])
  <2> DEFINE Upon(m) == \E f \in [0 .. m -> D] : f[0] = start /\ \A i \in 1 .. m : f[i] = Step(f[i - 1], bad[i])
             S == {m \in Nat : m <= n => Upon(m)}
  <2> HIDE DEF n
  <2>1. 0 \in S
    <3> DEFINE f == [i \in 0 .. 0 |-> start]
    <3>1. f \in [0 .. 0 -> D] /\ f[0] = start /\ \A i \in 1 .. 0 : f[i] = Step(f[i - 1], bad[i])
      BY <1>3
    <3> QED BY <3>1
  <2>2. ASSUME NEW m \in S PROVE m + 1 \in S
    <3> HIDE DEF Upon
    <3> SUFFICES ASSUME m + 1 <= n PROVE Upon(m + 1)
      OBVIOUS
    <3>0. m \in Nat /\ (m <= n => Upon(m))
      OBVIOUS
    <3> HIDE DEF S
    <3>1. m \in Nat /\ m <= n /\ m + 1 \in 1 .. n
      BY <1>2, <3>0
    <3>2. PICK f \in [0 .. m -> D] : f[0] = start /\ \A i \in 1 .. m : f[i] = Step(f[i - 1], bad[i])
      BY <3>0, <3>1 DEF Upon
    <3> DEFINE g == [i \in 0 .. m + 1 |-> IF i = m + 1 THEN Step(f[m], bad[m + 1]) ELSE f[i]]
    <3>3. g \in [0 .. m + 1 -> D]
      <4>1. Step(f[m], bad[m + 1]) \in D
        BY <1>2, <1>3, <3>1
      <4>2. \A i \in 0 .. m + 1 : i # m + 1 => i \in 0 .. m
        BY <3>1
      <4> QED BY <4>1, <4>2
    <3>4. g[0] = start
      BY <3>1, <3>2
    <3>5. ASSUME NEW i \in 1 .. m + 1 PROVE g[i] = Step(g[i - 1], bad[i])
      <4>1. i - 1 \in 0 .. m /\ i - 1 \in 0 .. m + 1 /\ i \in 0 .. m + 1 /\ i - 1 # m + 1
        BY <3>1
      <4>2. g[i - 1] = f[i - 1]
        BY <4>1
      <4>3. CASE i = m + 1
        <5>1. i - 1 = m /\ g[i] = Step(f[m], bad[m + 1])
          BY <3>1, <4>1, <4>3
        <5> QED BY <4>2, <4>3, <5>1
      <4>4. CASE i # m + 1
        <5>1. i \in 1 .. m /\ g[i] = f[i]
          BY <3>1, <4>1, <4>4
        <5> QED BY <3>2, <4>2, <5>1
      <4> QED BY <4>3, <4>4
    <3> HIDE DEF g
    <3> QED BY <3>3, <3>4, <3>5 DEF Upon
  <2>3. S = Nat
    <3>1. S \in SUBSET Nat
      OBVIOUS
    <3> HIDE DEF S
    <3> QED BY <2>1, <2>2, <3>1, AllNumbers
  <2> QED BY <1>2, <2>3
<1>5. /\ at \in [0 .. n -> D] /\ at[0] = start
      /\ \A i \in 1 .. n : at[i] = Step(at[i - 1], bad[i])
  <2> DEFINE Body(f) == [i \in 0 .. Len(bad) |->
            IF i = 0 THEN [p |-> pos, returned |-> FALSE]
            ELSE IF f[i - 1].returned \/ bad[i] < f[i - 1].p THEN f[i - 1]
            ELSE IF bad[i] = f[i - 1].p THEN [p |-> bad[i] + 1, returned |-> FALSE]
            ELSE [p |-> f[i - 1].p, returned |-> TRUE]]
  <2>1. at = CHOOSE f : f = Body(f)
    BY Zenon
  <2>2. PICK f \in [0 .. n -> D] : f[0] = start /\ \A i \in 1 .. n : f[i] = Step(f[i - 1], bad[i])
    BY <1>4
  <2>3. f = Body(f)
    <3>1. ASSUME NEW i \in 0 .. n PROVE f[i] = Body(f)[i]
      <4>1. CASE i = 0
        BY <2>2, <4>1 DEF start
      <4>2. CASE i # 0
        <5>1. i \in 1 .. n
          BY <1>2, <4>2
        <5> QED BY <2>2, <4>2, <5>1 DEF Step
      <4> QED BY <4>1, <4>2
    <3> QED BY <3>1
  <2> HIDE DEF Body, at
  <2>4. at = Body(at)
    BY <2>1, <2>3
  <2>5. DOMAIN at = 0 .. n /\ at[0] = start
    BY <1>2, <2>4 DEF Body, start
  <2>6. ASSUME NEW i \in 1 .. n PROVE at[i] = Step(at[i - 1], bad[i])
    <3>1. i \in 0 .. Len(bad) /\ i # 0
      BY <1>2
    <3>2. at[i] = Body(at)[i]
      BY <2>4
    <3> QED BY <3>1, <3>2 DEF Body, Step
  <2>7. \A i \in 0 .. n : at[i] \in D
    <3> DEFINE S == {m \in Nat : m <= n => at[m] \in D}
    <3>1. 0 \in S
      BY <1>3, <2>5
    <3>2. ASSUME NEW m \in S PROVE m + 1 \in S
      <4> SUFFICES ASSUME m + 1 <= n PROVE at[m + 1] \in D
        OBVIOUS
      <4>1. m + 1 \in 1 .. n /\ at[m] \in D /\ (m + 1) - 1 = m
        BY <1>2
      <4> HIDE DEF n
      <4>2. at[m + 1] = Step(at[m], bad[m + 1])
        BY <2>6, <4>1
      <4> QED BY <1>2, <1>3, <4>1, <4>2
    <3>3. S = Nat
      <4>1. S \in SUBSET Nat
        OBVIOUS
      <4> HIDE DEF S
      <4> QED BY <3>1, <3>2, <4>1, AllNumbers
    <3> QED BY <1>2, <3>3
  <2>8. at = [i \in 0 .. Len(bad) |-> at[i]]
    BY <2>4 DEF Body
  <2> QED BY <2>5, <2>6, <2>7, <2>8
<1> HIDE DEF at
<1> DEFINE Met(m) ==
      /\ at[m].p >= pos
      /\ at[m].returned => \A k \in 1 .. n : bad[k] # at[m].p
      /\ ~at[m].returned => \A k \in 1 .. m : bad[k] < at[m].p
      /\ \A x \in Nat : pos <= x /\ x < at[m].p => \E k \in 1 .. n : bad[k] = x
<1>6. \A m \in 0 .. n : Met(m)
  <2> DEFINE S == {m \in Nat : m <= n => Met(m)}
  <2>1. 0 \in S
    <3>1. at[0].p = pos /\ ~at[0].returned
      BY <1>5 DEF start
    <3>2. \A x \in Nat : ~(pos <= x /\ x < pos)
      OBVIOUS
    <3>3. Met(0)
      BY <3>1, <3>2
    <3> QED BY <3>3
  <2>2. ASSUME NEW m \in S PROVE m + 1 \in S
    <3> HIDE DEF Met
    <3> SUFFICES ASSUME m + 1 <= n PROVE Met(m + 1)
      OBVIOUS
    <3>0. m \in Nat /\ (m <= n => Met(m))
      OBVIOUS
    <3> HIDE DEF S
    <3>1. m \in Nat /\ m <= n /\ m + 1 \in 1 .. n /\ (m + 1) - 1 = m /\ m \in 0 .. n /\ m + 1 \in 0 .. n
      BY <1>2, <3>0
    <3>2. Met(m)
      BY <3>0, <3>1
    <3> DEFINE e == at[m]
               b == bad[m + 1]
    <3>3. at[m + 1] = Step(e, b)
      BY <1>5, <3>1
    <3>4. e.p \in Nat /\ b \in Nat
      BY <1>2, <1>5, <3>1 DEF D
    <3>5. /\ e.p >= pos
          /\ e.returned => \A k \in 1 .. n : bad[k] # e.p
          /\ ~e.returned => \A k \in 1 .. m : bad[k] < e.p
          /\ \A x \in Nat : pos <= x /\ x < e.p => \E k \in 1 .. n : bad[k] = x
      BY <3>2 DEF Met
    <3>6. /\ bad[m + 1] = b
          /\ \A k \in 1 .. n : k < m + 1 => k \in 1 .. m
          /\ \A k \in 1 .. m + 1 : k \in 1 .. m \/ k = m + 1
          /\ \A k \in 1 .. n : k \in 1 .. m \/ k = m + 1 \/ m + 1 < k
      BY <3>1
    <3>7. \A k \in 1 .. n : m + 1 < k => b < bad[k]
      BY <3>1, <3>6
    <3> HIDE DEF e, b, n
    <3>8. CASE e.returned
      <4>1. at[m + 1] = e
        BY <3>3, <3>8 DEF Step
      <4> QED BY <3>5, <3>8, <4>1 DEF Met
    <3>9. CASE ~e.returned /\ b < e.p
      <4>1. at[m + 1] = e
        BY <3>3, <3>9 DEF Step
      <4> QED BY <3>5, <3>6, <3>9, <4>1 DEF Met
    <3>10. CASE ~e.returned /\ b = e.p
      <4>1. at[m + 1].p = b + 1 /\ ~at[m + 1].returned
        <5>1. ~(b < e.p)
          BY <3>4, <3>10
        <5> QED BY <3>3, <3>10, <5>1 DEF Step
      <4>2. \A k \in 1 .. m + 1 : bad[k] < b + 1
        <5>1. \A k \in 1 .. m : bad[k] \in Nat
          BY <1>2, <3>1
        <5> QED BY <3>4, <3>5, <3>6, <3>10, <5>1
      <4>3. ASSUME NEW x \in Nat, pos <= x, x < b + 1 PROVE \E k \in 1 .. n : bad[k] = x
        <5>1. CASE x < b
          BY <3>5, <3>10, <4>3, <5>1
        <5>2. CASE x = b
          BY <3>1, <3>6, <5>2
        <5> QED BY <3>4, <4>3, <5>1, <5>2
      <4>4. b + 1 >= pos
        BY <3>4, <3>5, <3>10
      <4> QED BY <4>1, <4>2, <4>3, <4>4 DEF Met
    <3>11. CASE ~e.returned /\ b > e.p
      <4>1. at[m + 1].p = e.p /\ at[m + 1].returned
        <5>1. ~(b < e.p) /\ b # e.p
          BY <3>4, <3>11
        <5> QED BY <3>3, <3>11, <5>1 DEF Step
      <4>2. ASSUME NEW k \in 1 .. n PROVE bad[k] # e.p
        <5>1. bad[k] \in Nat
          BY <1>2
        <5>2. bad[k] < e.p \/ bad[k] = b \/ b < bad[k]
          BY <3>5, <3>6, <3>7, <3>11
        <5> QED BY <3>4, <3>11, <5>1, <5>2
      <4> QED BY <3>5, <4>1, <4>2 DEF Met
    <3>12. e.returned \/ b < e.p \/ b = e.p \/ b > e.p
      BY <3>4
    <3> QED BY <3>8, <3>9, <3>10, <3>11, <3>12
  <2>3. S = Nat
    <3>1. S \in SUBSET Nat
      OBVIOUS
    <3> HIDE DEF S
    <3> QED BY <2>1, <2>2, <3>1, AllNumbers
  <2> QED BY <1>2, <2>3
<1>7. Met(n) /\ at[n] \in D
  BY <1>2, <1>5, <1>6
<1>8. at[n].p \in Nat
  BY <1>7 DEF D
<1>9. \A k \in 1 .. n : bad[k] # at[n].p
  <2>1. \A k \in 1 .. n : bad[k] \in Nat
    BY <1>2
  <2> QED BY <1>7, <1>8, <2>1
<1> QED BY <1>1, <1>7, <1>8, <1>9

\* The position it returns is the first one that is not recorded as bad.
LEMMA WriteStarts ==
    ASSUME Fla!TypeOK, Fla!BadAscending
    PROVE  Fla!WriteStartRight
<1> SUFFICES ASSUME fpc # "end", ~fwr.failed, "last" \notin hist, NEW p \in Fla!Blocks
             PROVE  LET good == {q \in p .. NBlocks : q \notin Fla!ToSet(fwr.bad)}
                        q    == Fla!mtd_find_write_start(fwr.bad, p)
                    IN  q \in good /\ \A s \in good : q <= s
  BY DEF Fla!WriteStartRight
<1> DEFINE q == Fla!mtd_find_write_start(fwr.bad, p)
           good == {x \in p .. NBlocks : x \notin Fla!ToSet(fwr.bad)}
<1>1. NBlocks \in Nat /\ NBlocks > 0
  BY FlashSizes
<1>2. fwr.bad \in Seq(Fla!Blocks) /\ p \in Nat /\ p < NBlocks
  BY <1>1, ContextParts DEF Fla!Blocks
<1>3. fwr.bad \in Seq(Nat) /\ \A k \in 1 .. Len(fwr.bad) : fwr.bad[k] < NBlocks
  BY <1>1, <1>2 DEF Fla!Blocks
<1>4. \A k, l \in 1 .. Len(fwr.bad) : k < l => fwr.bad[k] < fwr.bad[l]
  BY DEF Fla!BadAscending
<1>5. /\ q \in Nat /\ q >= p /\ \A k \in 1 .. Len(fwr.bad) : fwr.bad[k] # q
      /\ \A x \in Nat : p <= x /\ x < q => \E k \in 1 .. Len(fwr.bad) : fwr.bad[k] = x
  BY <1>2, <1>3, <1>4, WriteStart
<1> HIDE DEF q
<1>6. \A x : x \in Fla!ToSet(fwr.bad) <=> \E k \in 1 .. Len(fwr.bad) : fwr.bad[k] = x
  BY <1>2 DEF Fla!ToSet
<1>7. q <= NBlocks
  <2> SUFFICES ASSUME NBlocks < q PROVE FALSE
    BY <1>1, <1>5
  <2> QED BY <1>1, <1>2, <1>3, <1>5
<1>8. q \in good
  BY <1>1, <1>2, <1>5, <1>6, <1>7
<1>9. ASSUME NEW s \in good PROVE q <= s
  <2>1. s \in Nat /\ p <= s /\ s \notin Fla!ToSet(fwr.bad)
    BY <1>1, <1>2
  <2> QED BY <1>5, <1>6, <2>1
<1> QED BY <1>8, <1>9 DEF q

-----------------------------------------------------------------------------
(* Flash: the data on the blocks                                           *)

(***************************************************************************)
(* What the invariants of MtdFlash say of the data, as formulas about the  *)
(* contents fl, the context c and the place p in the file, with control at *)
(* l and in pass ph: tool, img and marked never change.                    *)
(***************************************************************************)
StreamIn(ph, i) == IF tool = "flash" /\ ph \in {"zero", "close"} /\ i = 1 THEN 0 ELSE img[i]
UnitIn(p, ph, i) == IF i <= p THEN StreamIn(ph, i) ELSE 0
WrittenIn(fl, a, p, ph) ==
    \A b \in Fla!Good, j \in 1 .. BlockUnits : b < a => fl[b][j] = UnitIn(p, ph, Fla!Upto(b) + j)
CopyingIn(ph) == (tool = "flash" /\ ph \in {"zero", "rest"}) \/ (tool = "raw" /\ ph = "body")
LoadedIn(c, p, ph) ==
    /\ \A j \in 1 .. BlockUnits : c.data[j] = UnitIn(p, ph, Fla!Upto(c.pos) + j)
    /\ c.ret = "write" =>
          /\ Fla!Upto(c.pos) + BlockUnits + Len(c.todo) = p
          /\ \A j \in 1 .. Len(c.todo) : c.todo[j] = StreamIn(ph, Fla!Upto(c.pos) + BlockUnits + j)
    /\ c.ret # "write" => c.todo = <<>> /\ Fla!Upto(c.pos) < p /\ p <= Fla!Upto(c.pos) + BlockUnits
PendingIn(l, c, p, ph) ==
    /\ \A j \in 1 .. Len(c.stored) : c.stored[j] = StreamIn(ph, Fla!Upto(c.fd) + j)
    /\ \A j \in 1 .. Len(c.todo) : c.todo[j] = StreamIn(ph, Fla!Upto(c.fd) + Len(c.stored) + j)
    /\ l # "write" => c.todo = <<>>
    /\ \/ Fla!Upto(c.fd) + Len(c.stored) + Len(c.todo) = p
       \/ /\ ~CopyingIn(ph) /\ c.stored = <<>> /\ c.todo = <<>>
          /\ p <= Fla!Upto(c.fd) /\ Fla!Upto(c.fd) < p + BlockUnits
PlacedIn(l, c, p, ph, fl) ==
    /\ l \in {"block", "program"} => WrittenIn(fl, c.pos, p, ph) /\ LoadedIn(c, p, ph)
    /\ l \notin {"block", "program"} => WrittenIn(fl, c.fd, p, ph) /\ PendingIn(l, c, p, ph)
HoldsIn(fl, n) ==
    /\ Len(img) <= Fla!UnitsOn(Fla!Good)
    /\ \A b \in Fla!Good, j \in 1 .. BlockUnits :
          Fla!Upto(b) + j \in n .. Len(img) => fl[b][j] = img[Fla!Upto(b) + j]
PassesIn(l, c, p, ph, fl) ==
    /\ ~CopyingIn(ph) /\ ph # "seal" => p = Len(img)
    /\ l = "main" /\ ~CopyingIn(ph) => c.stored = <<>>
    /\ tool = "flash" => p > 0
    /\ tool = "flash" /\ ph \in {"rest", "seal"} => p <= BlockUnits /\ HoldsIn(fl, BlockUnits + 1)
    /\ tool = "flash" /\ ph = "seal" =>
          p = BlockUnits /\ l \notin {"block", "program"} /\ Fla!Upto(c.fd) >= BlockUnits
ErasedIn(fl, lo, hi) == \A b \in Fla!Good : lo <= b /\ b < hi => fl[b] = Fla!ErasedBlock
TailIn(l, c, ph, fl) ==
    tool = "raw" =>
        /\ l \in {"block", "program"} => c.ret # "erase"
        /\ l = "erase" => c.stored = <<>>
        /\ l = "erase" /\ ph = "tail" => c.fd <= c.pos /\ ErasedIn(fl, c.fd, c.pos)
        /\ ph = "close" \/ (l = "main" /\ ph = "tail") => ErasedIn(fl, c.fd, NBlocks)
Carried(l, c, p, ph, fl) == PlacedIn(l, c, p, ph, fl) /\ PassesIn(l, c, p, ph, fl) /\ TailIn(l, c, ph, fl)
DataKept == Fla!DataInPlace /\ Fla!PassesOrdered /\ Fla!TailErased

\* While nothing went wrong, the invariants say this of the present state.
LEMMA DataNow ==
    ASSUME DataKept, Fla!Sound, tool \in {"flash", "raw"}, Fla!Writing
    PROVE  Carried(fpc, fwr, fp, phase, flash)
<1> USE DEF CopyingIn, Fla!Copying, Fla!InBlock
<1>1. \A i : Fla!Stream(i) = StreamIn(phase, i) /\ Fla!Unit(i) = UnitIn(fp, phase, i)
  BY DEF Fla!Stream, Fla!Unit, StreamIn, UnitIn, Fla!Zero
<1>2. \A a : Fla!Written(a) <=> WrittenIn(flash, a, fp, phase)
  BY <1>1 DEF Fla!Written, WrittenIn
<1>3. Fla!Loaded <=> LoadedIn(fwr, fp, phase)
  BY <1>1 DEF Fla!Loaded, LoadedIn
<1>4. Fla!Pending <=> PendingIn(fpc, fwr, fp, phase)
  BY <1>1 DEF Fla!Pending, PendingIn
<1>5. PlacedIn(fpc, fwr, fp, phase, flash)
  BY <1>2, <1>3, <1>4 DEF DataKept, Fla!DataInPlace, Fla!Aim, PlacedIn
<1>6. \A n : Fla!Holds(img, n) <=> HoldsIn(flash, n)
  BY DEF Fla!Holds, HoldsIn
<1>7. PassesIn(fpc, fwr, fp, phase, flash)
  BY <1>6 DEF DataKept, Fla!PassesOrdered, PassesIn
<1>8. TailIn(fpc, fwr, phase, flash)
  BY DEF DataKept, Fla!TailErased, TailIn, Fla!Erased, ErasedIn
<1> QED BY <1>5, <1>7, <1>8 DEF Carried

\* The same of the next state.
LEMMA DataThen ==
    ASSUME marked' = marked, img' = img, tool' = tool,
           Fla!Sound' /\ tool \in {"flash", "raw"} /\ Fla!Writing' => Carried(fpc', fwr', fp', phase', flash')
    PROVE  DataKept'
<1> SUFFICES ASSUME Fla!Sound', tool \in {"flash", "raw"}, Fla!Writing'
             PROVE  /\ Fla!Written(Fla!Aim)' /\ (IF Fla!InBlock' THEN Fla!Loaded' ELSE Fla!Pending')
                    /\ PassesIn(fpc', fwr', fp', phase', flash') => Fla!PassesOrdered'
                    /\ TailIn(fpc', fwr', phase', flash') => Fla!TailErased'
  <2>1. CASE Fla!Sound' /\ tool' \in {"flash", "raw"} /\ Fla!Writing'
    BY <2>1 DEF DataKept, Fla!DataInPlace, Carried
  <2>2. CASE ~(Fla!Sound' /\ tool' \in {"flash", "raw"} /\ Fla!Writing')
    BY <2>2 DEF DataKept, Fla!DataInPlace, Fla!PassesOrdered, Fla!TailErased
  <2> QED BY <2>1, <2>2
<1> USE DEF CopyingIn, Fla!Copying, Fla!InBlock
<1>0. Fla!Good' = Fla!Good /\ \A b : Fla!Upto(b)' = Fla!Upto(b)
  BY DEF Fla!Good, Fla!Upto, Fla!UnitsOn
<1>1. \A i : Fla!Stream(i)' = StreamIn(phase', i) /\ Fla!Unit(i)' = UnitIn(fp', phase', i)
  BY DEF Fla!Stream, Fla!Unit, StreamIn, UnitIn, Fla!Zero
<1>2. PlacedIn(fpc', fwr', fp', phase', flash')
  BY DEF Carried
<1>3. Fla!Written(Fla!Aim)'
  <2>1. WrittenIn(flash', Fla!Aim', fp', phase')
    BY <1>2 DEF PlacedIn, Fla!Aim
  <2> QED BY <1>0, <1>1, <2>1 DEF Fla!Written, WrittenIn
<1>4. IF Fla!InBlock' THEN Fla!Loaded' ELSE Fla!Pending'
  <2>1. LoadedIn(fwr', fp', phase') => Fla!Loaded'
    BY <1>0, <1>1 DEF Fla!Loaded, LoadedIn
  <2>2. PendingIn(fpc', fwr', fp', phase') => Fla!Pending'
    BY <1>0, <1>1 DEF Fla!Pending, PendingIn
  <2> QED BY <1>2, <2>1, <2>2 DEF PlacedIn
<1>5. ASSUME PassesIn(fpc', fwr', fp', phase', flash') PROVE Fla!PassesOrdered'
  <2>1. HoldsIn(flash', BlockUnits + 1) => Fla!Holds(img, BlockUnits + 1)'
    <3>1. Fla!UnitsOn(Fla!Good)' = Fla!UnitsOn(Fla!Good)
      BY <1>0 DEF Fla!UnitsOn
    <3> QED BY <1>0, <3>1 DEF Fla!Holds, HoldsIn
  <2> QED BY <1>0, <1>5, <2>1 DEF Fla!PassesOrdered, PassesIn
<1>6. ASSUME TailIn(fpc', fwr', phase', flash') PROVE Fla!TailErased'
  <2>1. /\ ErasedIn(flash', fwr'.fd, fwr'.pos) => Fla!Erased(fwr.fd, fwr.pos)'
        /\ ErasedIn(flash', fwr'.fd, NBlocks) => Fla!Erased(fwr.fd, NBlocks)'
    BY <1>0 DEF Fla!Erased, ErasedIn, Fla!ErasedBlock, Fla!Blank
  <2> HIDE DEF ErasedIn, Fla!Erased
  <2> QED BY <1>6, <2>1 DEF Fla!TailErased, TailIn
<1> QED BY <1>3, <1>4, <1>5, <1>6

\* What is in front of block a stays there when neither the blocks in front
\* of it nor the units that belong there change.
LEMMA WrittenSame ==
    ASSUME Fla!TypeOK, NEW a \in 0 .. NBlocks, NEW fl, NEW g, NEW p, NEW q, NEW ph, NEW ps,
           WrittenIn(fl, a, p, ph),
           \A b \in Fla!Good : b < a => g[b] = fl[b],
           \A i \in Nat : 1 <= i /\ i <= Fla!Upto(a) => UnitIn(q, ps, i) = UnitIn(p, ph, i)
    PROVE  WrittenIn(g, a, q, ps)
<1> SUFFICES ASSUME NEW b \in Fla!Good, NEW j \in 1 .. BlockUnits, b < a
             PROVE  g[b][j] = UnitIn(q, ps, Fla!Upto(b) + j)
  BY DEF WrittenIn
<1>1. BlockUnits \in Nat
  BY FlashSizes
<1>2. b \in 0 .. NBlocks
  BY Places, FlashSizes DEF Fla!Blocks
<1>3. Fla!Upto(b) \in Nat /\ Fla!Upto(a) \in Nat /\ Fla!Upto(b) + BlockUnits <= Fla!Upto(a)
  BY <1>2, Places
<1>4. Fla!Upto(b) + j \in Nat /\ 1 <= Fla!Upto(b) + j /\ Fla!Upto(b) + j <= Fla!Upto(a)
  BY <1>1, <1>3
<1>5. UnitIn(q, ps, Fla!Upto(b) + j) = UnitIn(p, ph, Fla!Upto(b) + j)
  BY <1>4
<1>6. fl[b][j] = UnitIn(p, ph, Fla!Upto(b) + j)
  BY DEF WrittenIn
<1> QED BY <1>5, <1>6

\* The numbers of a state.
LEMMA FlashNumbers ==
    ASSUME Fla!TypeOK
    PROVE  /\ NBlocks \in Nat /\ NBlocks > 0 /\ BlockUnits \in Nat /\ BlockUnits > 0
           /\ fp \in Nat /\ Len(img) \in Nat /\ fp <= Len(img)
           /\ fwr.fd \in 0 .. NBlocks /\ fwr.pos \in 0 .. NBlocks
           /\ Len(fwr.stored) \in Nat /\ Len(fwr.todo) \in Nat /\ Len(fwr.stored) <= BlockUnits
           /\ Fla!Upto(fwr.fd) \in Nat /\ Fla!Upto(fwr.pos) \in Nat
<1>1. NBlocks \in Nat /\ NBlocks > 0 /\ BlockUnits \in Nat /\ BlockUnits > 0
  BY FlashSizes
<1>2. fp \in Nat /\ Len(img) \in Nat /\ fp <= Len(img)
  <2>1. img \in Seq(Int)
    BY DEF Fla!TypeOK, Fla!DeviceOK
  <2>2. Len(img) \in Nat
    BY <2>1
  <2>3. fp \in 0 .. Len(img)
    BY DEF Fla!TypeOK
  <2> QED BY <2>2, <2>3
<1>3. fwr.fd \in 0 .. NBlocks /\ fwr.pos \in 0 .. NBlocks /\ fwr.stored \in Seq(Int) /\ fwr.todo \in Seq(Int)
  BY ContextParts
<1>4. Len(fwr.stored) <= BlockUnits
  BY DEF Fla!TypeOK
<1>5. Fla!Upto(fwr.fd) \in Nat /\ Fla!Upto(fwr.pos) \in Nat
  BY <1>3, Places
<1>6. Len(fwr.stored) \in Nat /\ Len(fwr.todo) \in Nat
  BY <1>3
<1> QED BY <1>1, <1>2, <1>3, <1>4, <1>5, <1>6

\* Nothing is in front of the first block.
LEMMA NothingWritten ==
    ASSUME Fla!TypeOK, NEW fl, NEW p, NEW ph
    PROVE  WrittenIn(fl, 0, p, ph)
<1>1. \A b \in Fla!Good : ~(b < 0)
  BY Places, FlashSizes DEF Fla!Blocks
<1> QED BY <1>1 DEF WrittenIn

\* Scan opens an empty context for write_raw_image.
LEMMA ScanCarries ==
    ASSUME Fla!TypeOK, Fla!ProgramsOrdered, Fla!Scan, tool \in {"flash", "raw"}, Fla!Writing'
    PROVE  Carried(fpc', fwr', fp', phase', flash')
<1>1. /\ tool = "raw" /\ Fla!mtd_write_partition(<<>>, "main") /\ fpc' = "main" /\ phase' = "body"
      /\ fp' = fp /\ fpc = "scan"
  BY DEF Fla!Scan, Fla!Exit, Fla!Writing, Fla!InBlock
<1>2. fp = 0
  BY <1>1 DEF Fla!ProgramsOrdered
<1>3. fwr'.fd = 0 /\ fwr'.stored = <<>> /\ fwr'.todo = <<>>
  BY <1>1, ContextOpened
<1>4. Fla!Upto(0) = 0 /\ Len(<<>>) = 0
  BY Places
<1>5. PendingIn(fpc', fwr', fp', phase')
  BY <1>1, <1>2, <1>3, <1>4 DEF PendingIn
<1>6. PlacedIn(fpc', fwr', fp', phase', flash')
  BY <1>1, <1>3, <1>5, NothingWritten DEF PlacedIn
<1>7. PassesIn(fpc', fwr', fp', phase', flash')
  BY <1>1 DEF PassesIn, CopyingIn
<1>8. TailIn(fpc', fwr', phase', flash')
  BY <1>1 DEF TailIn
<1> QED BY <1>6, <1>7, <1>8 DEF Carried

\* FlashCheck hands over zeros for the header.
LEMMA CheckCarries ==
    ASSUME Fla!TypeOK, Fla!ProgramsOrdered, Fla!FlashCheck, Fla!Writing'
    PROVE  Carried(fpc', fwr', fp', phase', flash')
<1>1. /\ Fla!mtd_write_partition(<<Fla!Zero>>, "main") /\ fpc' = "write" /\ phase' = "zero"
      /\ fp' = fp /\ fpc = "check"
  BY DEF Fla!FlashCheck, Fla!Exit, Fla!Writing, Fla!InBlock
<1>2. fp = 1 /\ tool = "flash"
  BY <1>1 DEF Fla!ProgramsOrdered
<1>3. fwr'.fd = 0 /\ fwr'.stored = <<>> /\ fwr'.todo = <<0>>
  BY <1>1, ContextOpened DEF Fla!Zero
<1>4. Fla!Upto(0) = 0 /\ Len(<<>>) = 0 /\ Len(<<0>>) = 1 /\ <<0>>[1] = 0 /\ \A j \in 1 .. 1 : j = 1
  BY Places
<1>5. StreamIn(phase', 1) = 0
  BY <1>1, <1>2 DEF StreamIn
<1>6. PendingIn(fpc', fwr', fp', phase')
  BY <1>1, <1>2, <1>3, <1>4, <1>5 DEF PendingIn
<1>7. PlacedIn(fpc', fwr', fp', phase', flash')
  BY <1>1, <1>3, <1>6, NothingWritten DEF PlacedIn
<1>8. PassesIn(fpc', fwr', fp', phase', flash')
  BY <1>1, <1>2 DEF PassesIn, CopyingIn
<1>9. TailIn(fpc', fwr', phase', flash')
  BY <1>2 DEF TailIn
<1> QED BY <1>7, <1>8, <1>9 DEF Carried

\* The next unit of the file belongs behind what is stored.
LEMMA CopyCarries ==
    ASSUME Fla!TypeOK, Fla!ProgramsOrdered, Carried(fpc, fwr, fp, phase, flash),
           fpc = "main", CopyingIn(phase), Fla!CopyUnit, flash' = flash,
           phase = "rest" => fp < BlockUnits
    PROVE  Carried(fpc', fwr', fp', phase', flash')
<1>1. /\ fwr'.fd = fwr.fd /\ fwr'.stored = fwr.stored /\ fwr'.todo = <<img[fp + 1]>>
      /\ fpc' = "write" /\ phase' = phase /\ fp' = fp + 1 /\ fp < Len(img)
  BY UnitCopied DEF Fla!CopyUnit
<1>2. /\ fwr.fd \in 0 .. NBlocks /\ fwr.stored \in Seq(Int) /\ Len(fwr.stored) \in Nat
      /\ fp \in Nat /\ BlockUnits \in Nat /\ BlockUnits > 0 /\ Fla!Upto(fwr.fd) \in Nat
  BY ContextParts, FlashNumbers
<1>3. WrittenIn(flash, fwr.fd, fp, phase) /\ PendingIn(fpc, fwr, fp, phase)
  BY DEF Carried, PlacedIn
<1>4. Fla!Upto(fwr.fd) + Len(fwr.stored) = fp
  <2>1. fwr.todo = <<>> /\ Len(<<>>) = 0
    BY <1>3 DEF PendingIn
  <2>2. Fla!Upto(fwr.fd) + Len(fwr.stored) + Len(fwr.todo) = fp
    BY <1>3 DEF PendingIn
  <2> QED BY <1>2, <2>1, <2>2
<1>5. StreamIn(phase, fp + 1) = img[fp + 1]
  <2>1. tool = "flash" => fp > 0
    BY DEF Carried, PassesIn
  <2>2. tool = "flash" => fp + 1 # 1
    BY <1>2, <2>1
  <2> QED BY <2>2 DEF StreamIn
<1>6. \A i \in Nat : i <= Fla!Upto(fwr.fd) => UnitIn(fp + 1, phase, i) = UnitIn(fp, phase, i)
  BY <1>2, <1>4 DEF UnitIn
<1>7. WrittenIn(flash', fwr'.fd, fp', phase')
  BY <1>1, <1>2, <1>3, <1>6, WrittenSame
<1>8. PendingIn(fpc', fwr', fp', phase')
  <2>1. \A j \in 1 .. Len(fwr'.stored) : fwr'.stored[j] = StreamIn(phase', Fla!Upto(fwr'.fd) + j)
    BY <1>1, <1>3 DEF PendingIn
  <2>2. Len(fwr'.todo) = 1 /\ fwr'.todo[1] = img[fp + 1] /\ \A j \in 1 .. 1 : j = 1
    BY <1>1
  <2>3. Fla!Upto(fwr'.fd) + Len(fwr'.stored) + 1 = fp'
    BY <1>1, <1>2, <1>4
  <2>4. \A j \in 1 .. Len(fwr'.todo) : fwr'.todo[j] = StreamIn(phase', Fla!Upto(fwr'.fd) + Len(fwr'.stored) + j)
    BY <1>1, <1>5, <2>2, <2>3
  <2> QED BY <1>1, <2>1, <2>2, <2>3, <2>4 DEF PendingIn
<1>9. PlacedIn(fpc', fwr', fp', phase', flash')
  BY <1>1, <1>7, <1>8 DEF PlacedIn
<1>10. PassesIn(fpc', fwr', fp', phase', flash')
  <2>1. fp' > 0 /\ (phase = "rest" => fp' <= BlockUnits)
    BY <1>1, <1>2
  <2>2. tool = "flash" /\ phase = "rest" => HoldsIn(flash, BlockUnits + 1)
    BY DEF Carried, PassesIn
  <2>3. tool = "flash" => phase # "seal"
    BY DEF CopyingIn
  <2> QED BY <1>1, <2>1, <2>2, <2>3 DEF PassesIn
<1>11. TailIn(fpc', fwr', phase', flash')
  BY <1>1 DEF TailIn, CopyingIn
<1> QED BY <1>9, <1>10, <1>11 DEF Carried

\* The end of a pass of flash_image: the last units are still to be written.
LEMMA CloseCarries ==
    ASSUME Fla!TypeOK, Carried(fpc, fwr, fp, phase, flash), tool = "flash", fpc = "main",
           fpc' = "erase", fp' = fp, flash' = flash, fwr' = [fwr EXCEPT !.n = 0],
           \/ phase = "zero" /\ fp = Len(img) /\ phase' = "close"
           \/ phase = "rest" /\ fp >= BlockUnits /\ phase' = "seal" /\ Len(fwr.stored) < BlockUnits
    PROVE  Carried(fpc', fwr', fp', phase', flash')
<1>1. fwr'.fd = fwr.fd /\ fwr'.stored = fwr.stored /\ fwr'.todo = fwr.todo
  BY CountSet
<1>2. WrittenIn(flash, fwr.fd, fp, phase) /\ PendingIn(fpc, fwr, fp, phase)
  BY DEF Carried, PlacedIn
<1>3. \A i : StreamIn(phase', i) = StreamIn(phase, i)
  BY DEF StreamIn
<1>4. \A i : UnitIn(fp', phase', i) = UnitIn(fp, phase, i)
  BY <1>3 DEF UnitIn
<1>5. WrittenIn(flash', fwr'.fd, fp', phase')
  BY <1>1, <1>2, <1>4 DEF WrittenIn
<1>6. fwr.todo = <<>> /\ Fla!Upto(fwr.fd) + Len(fwr.stored) + Len(fwr.todo) = fp
  BY <1>2 DEF PendingIn, CopyingIn
<1>7. PendingIn(fpc', fwr', fp', phase')
  BY <1>1, <1>2, <1>3, <1>6 DEF PendingIn
<1>8. PassesIn(fpc', fwr', fp', phase', flash')
  <2>1. fp > 0 /\ (phase = "rest" => fp <= BlockUnits /\ HoldsIn(flash, BlockUnits + 1))
    BY DEF Carried, PassesIn
  <2>2. phase = "rest" => fp = BlockUnits /\ Fla!Upto(fwr.fd) >= BlockUnits
    <3> SUFFICES ASSUME phase = "rest" PROVE fp = BlockUnits /\ Fla!Upto(fwr.fd) >= BlockUnits
      OBVIOUS
    <3>1. fp = BlockUnits
      BY <2>1, FlashNumbers
    <3>2. Len(fwr.todo) = 0
      BY <1>6
    <3>3. Fla!Upto(fwr.fd) # 0
      BY <1>6, <3>1, <3>2, FlashNumbers
    <3> QED BY <3>1, <3>3, Places, FlashNumbers
  <2> QED BY <1>1, <2>1, <2>2 DEF PassesIn
<1>9. PlacedIn(fpc', fwr', fp', phase', flash')
  BY <1>5, <1>7 DEF PlacedIn
<1>10. TailIn(fpc', fwr', phase', flash')
  BY DEF TailIn
<1> QED BY <1>8, <1>9, <1>10 DEF Carried

\* When all of the file has been written, it is on the blocks in front of the
\* file position.
LEMMA BodyWritten ==
    ASSUME Fla!TypeOK, Carried(fpc, fwr, fp, phase, flash), fpc = "main", phase = "close"
    PROVE  /\ Len(img) <= Fla!Upto(fwr.fd) /\ Len(img) <= Fla!UnitsOn(Fla!Good)
           /\ Fla!Upto(fwr.fd) < Len(img) + BlockUnits
           /\ \A b \in Fla!Good, j \in 1 .. BlockUnits :
                 Fla!Upto(b) + j <= Len(img) => flash[b][j] = StreamIn(phase, Fla!Upto(b) + j)
<1>1. WrittenIn(flash, fwr.fd, fp, phase) /\ PendingIn(fpc, fwr, fp, phase)
  BY DEF Carried, PlacedIn
<1>2. fp = Len(img) /\ fwr.stored = <<>> /\ fwr.todo = <<>> /\ Len(<<>>) = 0
  BY <1>1 DEF Carried, PassesIn, CopyingIn, PendingIn
<1>3. Len(img) <= Fla!Upto(fwr.fd) /\ Fla!Upto(fwr.fd) < Len(img) + BlockUnits
  BY <1>1, <1>2, FlashNumbers DEF PendingIn
<1>4. Len(img) <= Fla!UnitsOn(Fla!Good)
  <2>1. Fla!Upto(fwr.fd) <= Fla!UnitsOn(Fla!Good) /\ Fla!Upto(NBlocks) = Fla!UnitsOn(Fla!Good) /\ NBlocks \in 0 .. NBlocks
    BY FlashNumbers, Places
  <2>2. Fla!UnitsOn(Fla!Good) \in Nat
    BY <2>1, Places
  <2> QED BY <1>3, <2>1, <2>2, FlashNumbers
<1>5. ASSUME NEW b \in Fla!Good, NEW j \in 1 .. BlockUnits, Fla!Upto(b) + j <= Len(img)
      PROVE  flash[b][j] = StreamIn(phase, Fla!Upto(b) + j)
  <2>1. b \in 0 .. NBlocks
    BY Places, FlashNumbers DEF Fla!Blocks
  <2>2. Fla!Upto(b) \in Nat
    BY <2>1, Places
  <2>3. Fla!Upto(b) + j <= Fla!Upto(fwr.fd)
    BY <1>3, <1>5, <2>2, FlashNumbers
  <2>4. b < fwr.fd
    BY <2>3, Places, FlashNumbers
  <2>5. flash[b][j] = UnitIn(fp, phase, Fla!Upto(b) + j)
    BY <1>1, <2>4 DEF WrittenIn
  <2> QED BY <1>2, <1>5, <2>5 DEF UnitIn
<1> QED BY <1>3, <1>4, <1>5

\* The second pass of flash_image begins with the body in place.
LEMMA ReopenCarries ==
    ASSUME Fla!TypeOK, Carried(fpc, fwr, fp, phase, flash), tool = "flash", fpc = "main", phase = "close",
           Fla!mtd_write_partition(<<Fla!Header>>, "main"), fpc' = "write", phase' = "rest", fp' = 1,
           flash' = flash
    PROVE  Carried(fpc', fwr', fp', phase', flash')
<1>1. fwr'.fd = 0 /\ fwr'.stored = <<>> /\ fwr'.todo = <<img[1]>>
  BY ContextOpened DEF Fla!Header, Fla!TypeOK, Fla!DeviceOK
<1>2. /\ Fla!Upto(0) = 0 /\ Len(<<>>) = 0 /\ Len(<<img[1]>>) = 1 /\ <<img[1]>>[1] = img[1]
      /\ \A j \in 1 .. 1 : j = 1
  BY Places
<1>3. StreamIn(phase', 1) = img[1]
  BY DEF StreamIn
<1>4. PendingIn(fpc', fwr', fp', phase')
  BY <1>1, <1>2, <1>3 DEF PendingIn
<1>5. PlacedIn(fpc', fwr', fp', phase', flash')
  BY <1>1, <1>4, NothingWritten DEF PlacedIn
<1>6. HoldsIn(flash', BlockUnits + 1)
  <2>1. ASSUME NEW b \in Fla!Good, NEW j \in 1 .. BlockUnits, Fla!Upto(b) + j \in BlockUnits + 1 .. Len(img)
        PROVE  flash[b][j] = img[Fla!Upto(b) + j]
    <3>1. Fla!Upto(b) + j <= Len(img) /\ Fla!Upto(b) + j # 1
      BY <2>1, FlashNumbers
    <3> QED BY <3>1, BodyWritten DEF StreamIn
  <2> QED BY <2>1, BodyWritten DEF HoldsIn
<1>7. PassesIn(fpc', fwr', fp', phase', flash')
  BY <1>6, FlashNumbers DEF PassesIn, CopyingIn
<1>8. TailIn(fpc', fwr', phase', flash')
  BY DEF TailIn
<1> QED BY <1>5, <1>7, <1>8 DEF Carried

\* flash_image's own steps.
LEMMA FlashMainCarries ==
    ASSUME Fla!TypeOK, Fla!ProgramsOrdered, Fla!FlashMain, Carried(fpc, fwr, fp, phase, flash), Fla!Writing'
    PROVE  Carried(fpc', fwr', fp', phase', flash')
<1>1. /\ fpc = "main" /\ tool = "flash" /\ flash' = flash /\ phase \in {"zero", "rest", "close", "seal"}
      /\ fpc' # "end" /\ (phase = "rest" => Len(fwr.stored) < BlockUnits)
  BY DEF Fla!FlashMain, Fla!ProgramsOrdered, Fla!Copying, Fla!Writing, Fla!InBlock
<1>2. CASE phase \in {"zero", "rest"} /\ Fla!CopyUnit /\ (phase = "rest" => fp < BlockUnits)
  BY <1>1, <1>2, CopyCarries DEF CopyingIn
<1>3. CASE /\ phase = "zero" /\ fp = Len(img) /\ fpc' = "erase" /\ phase' = "close"
           /\ fwr' = [fwr EXCEPT !.n = 0] /\ fp' = fp
  BY <1>1, <1>3, CloseCarries
<1>4. CASE /\ phase = "rest" /\ fp >= BlockUnits /\ fpc' = "erase" /\ phase' = "seal"
           /\ fwr' = [fwr EXCEPT !.n = 0] /\ fp' = fp
  BY <1>1, <1>4, CloseCarries
<1>5. CASE /\ phase = "close" /\ Fla!mtd_write_partition(<<Fla!Header>>, "main")
           /\ fpc' = "write" /\ phase' = "rest" /\ fp' = 1
  BY <1>1, <1>5, ReopenCarries
<1> QED BY <1>1, <1>2, <1>3, <1>4, <1>5 DEF Fla!FlashMain, Fla!Exit

\* write_raw_image's own steps.
LEMMA RawMainCarries ==
    ASSUME Fla!TypeOK, Fla!ProgramsOrdered, Fla!RawMain, Carried(fpc, fwr, fp, phase, flash),
           Fla!Sound', Fla!Writing'
    PROVE  Carried(fpc', fwr', fp', phase', flash')
<1>1. fpc = "main" /\ tool = "raw" /\ flash' = flash /\ fpc' # "end" /\ hist' = {} /\ ~fwr'.failed
  BY DEF Fla!RawMain, Fla!Writing, Fla!InBlock, Fla!Sound
<1>2. WrittenIn(flash, fwr.fd, fp, phase) /\ PendingIn(fpc, fwr, fp, phase)
  BY <1>1 DEF Carried, PlacedIn
<1>3. \A ph, i : StreamIn(ph, i) = img[i]
  BY <1>1 DEF StreamIn
<1>4. \A a, ph, ps : WrittenIn(flash, a, fp, ph) => WrittenIn(flash, a, fp, ps)
  BY <1>3 DEF WrittenIn, UnitIn
<1>5. CASE phase = "body" /\ ~fwr.failed /\ Fla!CopyUnit
  BY <1>1, <1>5, CopyCarries DEF CopyingIn
<1>6. CASE phase = "body" /\ fp = Len(img) /\ fpc' = "open_erase" /\ phase' = "tail" /\ UNCHANGED <<fp, fwr>>
  <2>1. PendingIn(fpc', fwr', fp', phase')
    BY <1>1, <1>2, <1>3, <1>6 DEF PendingIn, CopyingIn
  <2>2. PlacedIn(fpc', fwr', fp', phase', flash')
    BY <1>1, <1>2, <1>4, <1>6, <2>1 DEF PlacedIn
  <2>3. PassesIn(fpc', fwr', fp', phase', flash')
    BY <1>1, <1>6 DEF PassesIn
  <2>4. TailIn(fpc', fwr', phase', flash')
    BY <1>6 DEF TailIn
  <2> QED BY <2>2, <2>3, <2>4 DEF Carried
<1>7. CASE phase = "tail" /\ fpc' = "erase" /\ phase' = "close" /\ fwr' = [fwr EXCEPT !.n = 0] /\ fp' = fp
  <2>1. fwr'.fd = fwr.fd /\ fwr'.stored = fwr.stored /\ fwr'.todo = fwr.todo
    BY <1>7, CountSet
  <2>2. PendingIn(fpc', fwr', fp', phase')
    BY <1>1, <1>2, <1>3, <1>7, <2>1 DEF PendingIn, CopyingIn
  <2>3. PlacedIn(fpc', fwr', fp', phase', flash')
    BY <1>1, <1>2, <1>4, <1>7, <2>1, <2>2 DEF PlacedIn
  <2>4. fp = Len(img) /\ fwr.stored = <<>>
    BY <1>1, <1>7 DEF Carried, PassesIn, CopyingIn
  <2>5. PassesIn(fpc', fwr', fp', phase', flash')
    BY <1>1, <1>7, <2>4 DEF PassesIn
  <2>6. ErasedIn(flash, fwr.fd, NBlocks)
    BY <1>1, <1>7 DEF Carried, TailIn
  <2>7. TailIn(fpc', fwr', phase', flash')
    BY <1>1, <1>7, <2>1, <2>4, <2>6 DEF TailIn
  <2> QED BY <2>3, <2>5, <2>7 DEF Carried
<1>8. fwr' = fwr => ~fwr.failed
  BY <1>1
<1> QED BY <1>1, <1>5, <1>6, <1>7, <1>8 DEF Fla!RawMain, Fla!Exit

\* mtd_write_data: the block it hands to write_block, and what it stores, are
\* the units that come next.
LEMMA FillCarries ==
    ASSUME Fla!TypeOK, Fla!ProgramsOrdered, Carried(fpc, fwr, fp, phase, flash), fpc = "write",
           flash' = flash, phase' = phase, fp' = fp, CopyingIn(phase),
           NEW n \in 0 .. Len(fwr.todo), Len(fwr.stored) + n <= BlockUnits,
           LET buf  == fwr.stored \o SubSeq(fwr.todo, 1, n)
               rest == SubSeq(fwr.todo, n + 1, Len(fwr.todo))
           IN  \/ /\ Len(fwr.stored) + n = BlockUnits /\ fpc' = "block" /\ fwr'.pos = fwr.fd
                  /\ fwr'.data = buf /\ fwr'.todo = rest /\ fwr'.ret = "write"
               \/ fpc' = "write" /\ fwr'.fd = fwr.fd /\ fwr'.stored = buf /\ fwr'.todo = rest
    PROVE  Carried(fpc', fwr', fp', phase', flash')
<1> DEFINE buf  == fwr.stored \o SubSeq(fwr.todo, 1, n)
           rest == SubSeq(fwr.todo, n + 1, Len(fwr.todo))
           ls == Len(fwr.stored)
           lt == Len(fwr.todo)
           u == Fla!Upto(fwr.fd)
<1>1. WrittenIn(flash, fwr.fd, fp, phase) /\ PendingIn(fpc, fwr, fp, phase)
  BY DEF Carried, PlacedIn
<1>2. fwr.stored \in Seq(Int) /\ fwr.todo \in Seq(Int)
  BY ContextParts
<1>3. /\ Len(buf) = ls + n /\ Len(rest) = lt - n
      /\ \A j \in 1 .. ls + n : buf[j] = IF j <= ls THEN fwr.stored[j] ELSE fwr.todo[j - ls]
      /\ \A j \in 1 .. lt - n : rest[j] = fwr.todo[n + j]
  <2>1. /\ Len(buf) = Len(fwr.stored) + n /\ Len(rest) = Len(fwr.todo) - n
        /\ \A j \in 1 .. Len(fwr.stored) + n :
              buf[j] = IF j <= Len(fwr.stored) THEN fwr.stored[j] ELSE fwr.todo[j - Len(fwr.stored)]
        /\ \A j \in 1 .. Len(fwr.todo) - n : rest[j] = fwr.todo[n + j]
    <3> DEFINE Filled(s, t) ==
          LET all == s \o SubSeq(t, 1, n)
              left == SubSeq(t, n + 1, Len(t))
          IN  /\ Len(all) = Len(s) + n /\ Len(left) = Len(t) - n
              /\ \A j \in 1 .. Len(s) + n : all[j] = IF j <= Len(s) THEN s[j] ELSE t[j - Len(s)]
              /\ \A j \in 1 .. Len(t) - n : left[j] = t[n + j]
    <3>1. ASSUME NEW s \in Seq(Int), NEW t \in Seq(Int), n \in 0 .. Len(t) PROVE Filled(s, t)
      BY <3>1, Refilled
    <3>2. Filled(fwr.stored, fwr.todo)
      <4> HIDE DEF Filled
      <4> QED BY <1>2, <3>1
    <3> QED BY <3>2, Zenon
  <2> HIDE DEF buf, rest
  <2> QED BY <2>1
<1>4. ls \in Nat /\ lt \in Nat /\ u \in Nat /\ n \in Nat /\ n <= lt /\ fp \in Nat /\ BlockUnits \in Nat
  BY FlashNumbers
<1>5. u + ls + lt = fp
  BY <1>1 DEF PendingIn
<1>6. /\ \A j \in 1 .. ls : fwr.stored[j] = StreamIn(phase, u + j)
      /\ \A j \in 1 .. lt : fwr.todo[j] = StreamIn(phase, u + ls + j)
  BY <1>1 DEF PendingIn
<1>7. /\ \/ /\ ls + n = BlockUnits /\ fpc' = "block" /\ fwr'.pos = fwr.fd
            /\ fwr'.data = buf /\ fwr'.todo = rest /\ fwr'.ret = "write"
         \/ fpc' = "write" /\ fwr'.fd = fwr.fd /\ fwr'.stored = buf /\ fwr'.todo = rest
  OBVIOUS
<1> HIDE DEF buf, rest, ls, lt, u
<1>8. ASSUME NEW j \in 1 .. ls + n PROVE buf[j] = StreamIn(phase, u + j)
  <2>1. CASE j <= ls
    <3>1. j \in 1 .. ls
      BY <1>4, <2>1
    <3>2. buf[j] = fwr.stored[j]
      BY <1>3, <2>1
    <3> QED BY <1>6, <3>1, <3>2
  <2>2. CASE j > ls
    <3>1. j - ls \in 1 .. lt /\ u + ls + (j - ls) = u + j
      BY <1>4, <2>2
    <3>2. buf[j] = fwr.todo[j - ls]
      BY <1>3, <1>4, <2>2
    <3>3. fwr.todo[j - ls] = StreamIn(phase, u + ls + (j - ls))
      BY <1>6, <3>1
    <3> QED BY <3>1, <3>2, <3>3
  <2> QED BY <1>4, <2>1, <2>2
<1>9. ASSUME NEW j \in 1 .. lt - n PROVE rest[j] = StreamIn(phase, u + (ls + n) + j)
  <2>1. n + j \in 1 .. lt /\ u + ls + (n + j) = u + (ls + n) + j
    BY <1>4
  <2>2. rest[j] = fwr.todo[n + j]
    BY <1>3
  <2>3. fwr.todo[n + j] = StreamIn(phase, u + ls + (n + j))
    BY <1>6, <2>1
  <2> QED BY <2>1, <2>2, <2>3
<1>10. u + (ls + n) + (lt - n) = fp
  BY <1>4, <1>5
<1>11. PlacedIn(fpc', fwr', fp', phase', flash')
  <2>1. CASE fpc' = "write" /\ fwr'.fd = fwr.fd /\ fwr'.stored = buf /\ fwr'.todo = rest
    <3>1. PendingIn(fpc', fwr', fp', phase')
      BY <1>3, <1>8, <1>9, <1>10, <2>1 DEF PendingIn, u
    <3> QED BY <1>1, <2>1, <3>1 DEF PlacedIn
  <2>2. CASE /\ ls + n = BlockUnits /\ fpc' = "block" /\ fwr'.pos = fwr.fd
             /\ fwr'.data = buf /\ fwr'.todo = rest /\ fwr'.ret = "write"
    <3>1. ASSUME NEW j \in 1 .. BlockUnits PROVE buf[j] = UnitIn(fp, phase, u + j)
      <4>1. u + j <= fp /\ j \in 1 .. ls + n
        BY <1>4, <1>10, <2>2
      <4> QED BY <1>8, <4>1 DEF UnitIn
    <3>2. LoadedIn(fwr', fp', phase')
      BY <1>3, <1>9, <1>10, <2>2, <3>1 DEF LoadedIn, u
    <3> QED BY <1>1, <2>2, <3>2 DEF PlacedIn
  <2> QED BY <1>7, <2>1, <2>2
<1>12. PassesIn(fpc', fwr', fp', phase', flash')
  <2>1. tool = "flash" => phase # "seal"
    BY DEF CopyingIn
  <2> QED BY <1>7, <2>1 DEF Carried, PassesIn
<1>13. TailIn(fpc', fwr', phase', flash')
  BY <1>7 DEF TailIn, CopyingIn
<1> QED BY <1>11, <1>12, <1>13 DEF Carried

\* mtd_write_data, with the length that it computes.
LEMMA WriteDataCarries ==
    ASSUME Fla!TypeOK, Fla!ProgramsOrdered, Fla!mtd_write_data, Carried(fpc, fwr, fp, phase, flash)
    PROVE  Carried(fpc', fwr', fp', phase', flash')
<1>1. fpc = "write" /\ flash' = flash /\ phase' = phase /\ fp' = fp
  BY DEF Fla!mtd_write_data
<1>2. CopyingIn(phase)
  BY <1>1 DEF Fla!ProgramsOrdered, Fla!Copying, CopyingIn
<1>0. fwr \in Fla!MtdWriteContext
  BY DEF Fla!TypeOK
<1>3. CASE fwr.todo # <<>> /\ (fwr.stored # <<>> \/ Len(fwr.todo) < BlockUnits)
           /\ LET room == BlockUnits - Len(fwr.stored)
                  n    == IF Len(fwr.todo) < room THEN Len(fwr.todo) ELSE room
                  buf  == fwr.stored \o SubSeq(fwr.todo, 1, n)
                  rest == SubSeq(fwr.todo, n + 1, Len(fwr.todo))
              IN  IF Len(buf) = BlockUnits THEN Fla!WriteBlockOf(buf, buf, rest)
                  ELSE fwr' = [fwr EXCEPT !.stored = buf, !.todo = rest] /\ fpc' = fpc
  <2> DEFINE room == BlockUnits - Len(fwr.stored)
             n    == IF Len(fwr.todo) < room THEN Len(fwr.todo) ELSE room
             buf  == fwr.stored \o SubSeq(fwr.todo, 1, n)
             rest == SubSeq(fwr.todo, n + 1, Len(fwr.todo))
  <2>1. n \in 0 .. Len(fwr.todo) /\ Len(fwr.stored) + n <= BlockUnits
    <3> DEFINE ls == Len(fwr.stored)
               lt == Len(fwr.todo)
    <3>1. ls \in Nat /\ lt \in Nat /\ BlockUnits \in Nat /\ ls <= BlockUnits
      BY FlashNumbers
    <3> HIDE DEF ls, lt
    <3>2. \A x \in Nat : x = (IF lt < BlockUnits - ls THEN lt ELSE BlockUnits - ls) => x \in 0 .. lt /\ ls + x <= BlockUnits
      BY <3>1
    <3>3. n = (IF lt < BlockUnits - ls THEN lt ELSE BlockUnits - ls)
      BY DEF ls, lt
    <3>4. n \in Nat
      <4> HIDE DEF n
      <4> QED BY <3>1, <3>3
    <3> HIDE DEF n
    <3> QED BY <3>2, <3>3, <3>4 DEF ls, lt
  <2>2. Len(buf) = Len(fwr.stored) + n
    <3> HIDE DEF n
    <3> QED BY <2>1, ContextParts, Refilled
  <2>3. \/ Len(buf) = BlockUnits /\ Fla!WriteBlockOf(buf, buf, rest)
        \/ fwr' = [fwr EXCEPT !.stored = buf, !.todo = rest] /\ fpc' = fpc
    BY <1>3
  <2> HIDE DEF n
  <2>4. \/ /\ Len(fwr.stored) + n = BlockUnits /\ fpc' = "block" /\ fwr'.pos = fwr.fd
           /\ fwr'.data = buf /\ fwr'.todo = rest /\ fwr'.ret = "write"
        \/ fpc' = "write" /\ fwr'.fd = fwr.fd /\ fwr'.stored = buf /\ fwr'.todo = rest
    <3> HIDE DEF buf, rest
    <3>1. CASE Len(buf) = BlockUnits /\ Fla!WriteBlockOf(buf, buf, rest)
      BY <2>2, <3>1, BlockHanded
    <3>2. CASE fwr' = [fwr EXCEPT !.stored = buf, !.todo = rest] /\ fpc' = fpc
      BY <1>0, <1>1, <3>2 DEF Fla!MtdWriteContext
    <3> QED BY <2>3, <3>1, <3>2
  <2> QED BY <1>1, <1>2, <2>1, <2>4, FillCarries
<1>4. CASE /\ fwr.stored = <<>> /\ Len(fwr.todo) >= BlockUnits
           /\ Fla!WriteBlockOf(SubSeq(fwr.todo, 1, BlockUnits), <<>>,
                               SubSeq(fwr.todo, BlockUnits + 1, Len(fwr.todo)))
  <2> DEFINE buf  == SubSeq(fwr.todo, 1, BlockUnits)
             rest == SubSeq(fwr.todo, BlockUnits + 1, Len(fwr.todo))
  <2>1. BlockUnits \in 0 .. Len(fwr.todo) /\ Len(fwr.stored) = 0 /\ Len(fwr.stored) + BlockUnits = BlockUnits
    BY <1>4, FlashNumbers
  <2>2. buf \in Seq(Int)
    <3>1. fwr.todo \in Seq(Int)
      BY ContextParts
    <3>2. BlockUnits \in Nat /\ BlockUnits <= Len(fwr.todo)
      BY <1>4, FlashNumbers
    <3> QED BY <3>1, <3>2
  <2>3. fwr.stored \o buf = buf
    <3> HIDE DEF buf
    <3> QED BY <1>4, <2>2
  <2>4. /\ fpc' = "block" /\ fwr'.pos = fwr.fd /\ fwr'.data = buf /\ fwr'.todo = rest /\ fwr'.ret = "write"
    BY <1>4, BlockHanded
  <2>5. /\ Len(fwr.stored) + BlockUnits = BlockUnits /\ fpc' = "block" /\ fwr'.pos = fwr.fd
        /\ fwr'.data = fwr.stored \o SubSeq(fwr.todo, 1, BlockUnits) /\ fwr'.todo = rest /\ fwr'.ret = "write"
    BY <2>1, <2>3, <2>4
  <2>6. Len(fwr.stored) + BlockUnits <= BlockUnits
    BY <2>1, FlashNumbers
  <2> QED BY <1>1, <1>2, <2>1, <2>5, <2>6, FillCarries
<1>5. CASE fwr.todo = <<>> /\ fpc' = "main" /\ fwr' = fwr
  <2>1. PlacedIn(fpc', fwr', fp', phase', flash')
    BY <1>1, <1>5 DEF Carried, PlacedIn, PendingIn
  <2>2. PassesIn(fpc', fwr', fp', phase', flash')
    BY <1>1, <1>2, <1>5 DEF Carried, PassesIn
  <2>3. TailIn(fpc', fwr', phase', flash')
    BY <1>1, <1>2, <1>5 DEF TailIn, CopyingIn
  <2> QED BY <2>1, <2>2, <2>3 DEF Carried
<1> QED BY <1>3, <1>4, <1>5, FlashNumbers DEF Fla!mtd_write_data

\* Which pass a block belongs to; in the second pass of flash_image it is the
\* first good block.
LEMMA BlockPasses ==
    ASSUME Fla!TypeOK, Fla!ProgramsOrdered, Carried(fpc, fwr, fp, phase, flash), Fla!InBlock,
           tool \in {"flash", "raw"}
    PROVE  /\ tool = "flash" => phase \in {"zero", "close", "rest"}
           /\ tool = "raw" => (phase = "body" /\ fwr.ret = "write") \/ (phase = "tail" /\ fwr.ret = "open_erase")
           /\ fwr.ret = "write" => CopyingIn(phase)
           /\ fwr.ret # "write" => ~CopyingIn(phase) /\ fwr.ret \in {"erase", "open_erase"}
           /\ tool = "flash" /\ phase = "rest" => Fla!Upto(fwr.pos) = 0
<1>1. \/ fwr.ret = "write" /\ CopyingIn(phase)
      \/ fwr.ret = "erase" /\ phase \in {"close", "seal"}
      \/ fwr.ret = "open_erase" /\ tool = "raw" /\ phase = "tail"
  BY DEF Fla!ProgramsOrdered, Fla!Copying, CopyingIn
<1>2. /\ tool = "flash" => phase # "seal"
      /\ tool = "raw" => phase # "seal" /\ fwr.ret # "erase"
      /\ tool = "flash" /\ phase = "rest" => fp <= BlockUnits
  BY DEF Fla!ProgramsOrdered, Carried, PassesIn, TailIn, Fla!InBlock
<1>3. ASSUME tool = "flash", phase = "rest" PROVE Fla!Upto(fwr.pos) = 0
  <2>1. fwr.ret = "write"
    BY <1>1, <1>3
  <2>2. Fla!Upto(fwr.pos) + BlockUnits + Len(fwr.todo) = fp
    BY <2>1 DEF Carried, PlacedIn, LoadedIn, Fla!InBlock
  <2> QED BY <1>2, <1>3, <2>2, FlashNumbers
<1> QED BY <1>1, <1>2, <1>3 DEF CopyingIn

\* Writing the first good block leaves the body where it is.
LEMMA BodyKept ==
    ASSUME Fla!TypeOK, Fla!ProgramsOrdered, Carried(fpc, fwr, fp, phase, flash), Fla!InBlock,
           tool = "flash", phase = "rest", \A c \in Fla!Good : c # fwr.pos => flash'[c] = flash[c]
    PROVE  HoldsIn(flash', BlockUnits + 1)
<1>1. HoldsIn(flash, BlockUnits + 1)
  BY DEF Carried, PassesIn
<1>2. Fla!Upto(fwr.pos) = 0
  BY BlockPasses
<1>3. ASSUME NEW b \in Fla!Good, NEW j \in 1 .. BlockUnits, Fla!Upto(b) + j \in BlockUnits + 1 .. Len(img)
      PROVE  flash'[b][j] = flash[b][j]
  <2>1. b # fwr.pos
    BY <1>2, <1>3, FlashNumbers
  <2> QED BY <2>1
<1> QED BY <1>1, <1>3 DEF HoldsIn

\* The other blocks.
LEMMA OtherBlocks ==
    ASSUME Fla!TypeOK, NEW x, flash' = [flash EXCEPT ![fwr.pos] = x]
    PROVE  \A c \in Fla!Good : c # fwr.pos => flash'[c] = flash[c]
<1>1. \A c \in Fla!Good : c \in Fla!Blocks
  BY Places
<1>2. DOMAIN flash = Fla!Blocks
  BY DEF Fla!TypeOK, Fla!DeviceOK
<1> QED BY <1>1, <1>2

\* An attempt at a block leaves what is in front of it and what it is to hold.
LEMMA AttemptCarries ==
    ASSUME Fla!TypeOK, Fla!ProgramsOrdered, Carried(fpc, fwr, fp, phase, flash), Fla!InBlock,
           tool \in {"flash", "raw"}, fpc' \in {"block", "program"}, fp' = fp, phase' = phase,
           NEW x, flash' = flash \/ flash' = [flash EXCEPT ![fwr.pos] = x],
           fwr'.data = fwr.data, fwr'.todo = fwr.todo, fwr'.ret = fwr.ret,
           Fla!Upto(fwr'.pos) = Fla!Upto(fwr.pos),
           \A b \in Fla!Good : b < fwr'.pos => b < fwr.pos
    PROVE  Carried(fpc', fwr', fp', phase', flash')
<1>0. \A c \in Fla!Good : c # fwr.pos => flash'[c] = flash[c]
  BY OtherBlocks
<1>1. WrittenIn(flash, fwr.pos, fp, phase) /\ LoadedIn(fwr, fp, phase)
  BY DEF Carried, PlacedIn, Fla!InBlock
<1>2. \A b \in Fla!Good : b < fwr.pos => flash'[b] = flash[b]
  <2>1. \A b \in Fla!Good : b < fwr.pos => b # fwr.pos
    BY Places, FlashNumbers DEF Fla!Blocks
  <2> QED BY <1>0, <2>1
<1>3. WrittenIn(flash', fwr'.pos, fp', phase')
  BY <1>1, <1>2 DEF WrittenIn
<1>4. LoadedIn(fwr', fp', phase')
  BY <1>1 DEF LoadedIn
<1>5. PlacedIn(fpc', fwr', fp', phase', flash')
  BY <1>3, <1>4 DEF PlacedIn
<1>6. PassesIn(fpc', fwr', fp', phase', flash')
  <2>1. tool = "flash" /\ phase = "rest" => fp <= BlockUnits /\ HoldsIn(flash', BlockUnits + 1)
    BY <1>0, BodyKept DEF Carried, PassesIn
  <2>2. tool = "flash" => phase # "seal"
    BY BlockPasses
  <2> QED BY <2>1, <2>2 DEF Carried, PassesIn
<1>7. TailIn(fpc', fwr', phase', flash')
  BY BlockPasses DEF TailIn
<1> QED BY <1>5, <1>6, <1>7 DEF Carried

\* A block that was programmed and compared belongs to what is written.
LEMMA ProgramCarries ==
    ASSUME Fla!TypeOK, Fla!ProgramsOrdered, Carried(fpc, fwr, fp, phase, flash), fpc = "program",
           tool \in {"flash", "raw"}, fpc' = fwr.ret, fp' = fp, phase' = phase,
           flash' = [flash EXCEPT ![fwr.pos] = fwr.data],
           fwr'.fd = fwr.pos + 1, fwr'.stored = <<>>, fwr'.todo = fwr.todo
    PROVE  Carried(fpc', fwr', fp', phase', flash')
<1>1. WrittenIn(flash, fwr.pos, fp, phase) /\ LoadedIn(fwr, fp, phase)
  BY DEF Carried, PlacedIn
<1>2. fwr.pos \in Fla!Good /\ Fla!InBlock
  BY DEF Fla!ProgramsOrdered, Fla!InBlock
<1>3. fwr.pos \in Fla!Blocks /\ DOMAIN flash = Fla!Blocks
  BY <1>2, Places DEF Fla!TypeOK, Fla!DeviceOK
<1>4. Fla!Upto(fwr.pos + 1) = Fla!Upto(fwr.pos) + BlockUnits
  BY <1>2, <1>3, Places
<1>5. WrittenIn(flash', fwr'.fd, fp', phase')
  <2> SUFFICES ASSUME NEW b \in Fla!Good, NEW j \in 1 .. BlockUnits, b < fwr.pos + 1
               PROVE  flash'[b][j] = UnitIn(fp, phase, Fla!Upto(b) + j)
    BY DEF WrittenIn
  <2>1. b \in Fla!Blocks
    BY Places
  <2>2. CASE b = fwr.pos
    BY <1>1, <1>3, <2>2 DEF LoadedIn
  <2>3. CASE b # fwr.pos
    <3>1. b < fwr.pos
      <4>1. b \in Int /\ fwr.pos \in Int
        BY <2>1, FlashNumbers DEF Fla!Blocks
      <4> QED BY <2>3, <4>1
    <3>2. flash'[b] = flash[b]
      BY <1>3, <2>1, <2>3
    <3> QED BY <1>1, <3>1, <3>2 DEF WrittenIn
  <2> QED BY <2>2, <2>3
<1>6. fpc' \in {"write", "erase", "open_erase"} /\ (fpc' # "write" => ~CopyingIn(phase))
  BY <1>2, BlockPasses
<1>7. PendingIn(fpc', fwr', fp', phase')
  <2>1. Len(fwr'.stored) = 0 /\ Fla!Upto(fwr'.fd) = Fla!Upto(fwr.pos) + BlockUnits
    BY <1>4
  <2>2. CASE fwr.ret = "write"
    <3>1. Fla!Upto(fwr'.fd) + Len(fwr'.stored) = Fla!Upto(fwr.pos) + BlockUnits
      BY <2>1, FlashNumbers
    <3> QED BY <1>1, <2>1, <2>2, <3>1 DEF LoadedIn, PendingIn
  <2>3. CASE fwr.ret # "write"
    <3>1. fp <= Fla!Upto(fwr'.fd) /\ Fla!Upto(fwr'.fd) < fp + BlockUnits /\ fwr.todo = <<>>
      BY <1>1, <2>1, <2>3, FlashNumbers DEF LoadedIn
    <3> QED BY <1>6, <2>1, <2>3, <3>1 DEF PendingIn
  <2> QED BY <2>2, <2>3
<1>8. PlacedIn(fpc', fwr', fp', phase', flash')
  BY <1>5, <1>6, <1>7 DEF PlacedIn
<1>9. PassesIn(fpc', fwr', fp', phase', flash')
  <2>1. tool = "flash" /\ phase = "rest" => fp <= BlockUnits /\ HoldsIn(flash', BlockUnits + 1)
    BY <1>2, BodyKept, OtherBlocks DEF Carried, PassesIn
  <2>2. tool = "flash" => phase # "seal"
    BY <1>2, BlockPasses
  <2> QED BY <1>6, <2>1, <2>2 DEF Carried, PassesIn
<1>10. TailIn(fpc', fwr', phase', flash')
  BY <1>2, <1>6, BlockPasses DEF TailIn
<1> QED BY <1>8, <1>9, <1>10 DEF Carried

\* The steps of write_block that go well so far.
LEMMA BlockCarries ==
    ASSUME Fla!TypeOK, Fla!ProgramsOrdered, Carried(fpc, fwr, fp, phase, flash), tool \in {"flash", "raw"},
           Fla!BlockMarked \/ Fla!BlockErase \/ Fla!BlockProgram
    PROVE  Carried(fpc', fwr', fp', phase', flash')
<1>1. CASE Fla!BlockMarked
  <2>1. /\ fpc = "block" /\ fpc' = "block" /\ fp' = fp /\ phase' = phase /\ flash' = flash
        /\ fwr.pos < NBlocks /\ fwr.pos \in marked
    BY <1>1 DEF Fla!BlockMarked
  <2>2. /\ fwr'.data = fwr.data /\ fwr'.todo = fwr.todo /\ fwr'.ret = fwr.ret /\ fwr'.pos = fwr.pos + 1
    BY <1>1, BlockMarkedStep
  <2>3. fwr.pos \in Fla!Blocks /\ fwr.pos \notin Fla!Good
    BY <2>1, FlashNumbers DEF Fla!Blocks, Fla!Good
  <2>4. Fla!Upto(fwr.pos + 1) = Fla!Upto(fwr.pos)
    BY <2>3, Places
  <2>5. \A b \in Fla!Good : b < fwr.pos + 1 => b < fwr.pos
    <3>1. \A b \in Fla!Good : b \in Int /\ b # fwr.pos
      BY <2>3, Places, FlashNumbers DEF Fla!Blocks
    <3> QED BY <3>1, FlashNumbers
  <2> QED BY <2>1, <2>2, <2>4, <2>5, AttemptCarries DEF Fla!InBlock
<1>2. CASE Fla!BlockErase
  <2>1. /\ fpc = "block" /\ fpc' \in {"block", "program"} /\ fp' = fp /\ phase' = phase
        /\ (flash' = flash \/ flash' = [flash EXCEPT ![fwr.pos] = Fla!ErasedBlock])
    BY <1>2 DEF Fla!BlockErase
  <2>2. /\ fwr'.data = fwr.data /\ fwr'.todo = fwr.todo /\ fwr'.ret = fwr.ret /\ fwr'.pos = fwr.pos
    BY <1>2, BlockEraseStep
  <2> QED BY <2>1, <2>2, AttemptCarries DEF Fla!InBlock
<1>3. CASE Fla!BlockProgram
  <2>1. fpc = "program" /\ fp' = fp /\ phase' = phase
    BY <1>3 DEF Fla!BlockProgram
  <2>2. /\ \/ /\ fpc' = fwr.ret /\ fwr'.fd = fwr.pos + 1 /\ fwr'.stored = <<>>
              /\ flash' = [flash EXCEPT ![fwr.pos] = fwr.data]
           \/ fpc' = "block" /\ flash' = [flash EXCEPT ![fwr.pos] = Fla!Junk]
        /\ fwr'.data = fwr.data /\ fwr'.todo = fwr.todo /\ fwr'.ret = fwr.ret /\ fwr'.pos = fwr.pos
    BY <1>3, BlockProgramStep
  <2>3. CASE /\ fpc' = fwr.ret /\ fwr'.fd = fwr.pos + 1 /\ fwr'.stored = <<>>
             /\ flash' = [flash EXCEPT ![fwr.pos] = fwr.data]
    BY <2>1, <2>2, <2>3, ProgramCarries
  <2>4. CASE fpc' = "block" /\ flash' = [flash EXCEPT ![fwr.pos] = Fla!Junk]
    BY <2>1, <2>2, <2>4, AttemptCarries DEF Fla!InBlock
  <2> QED BY <2>2, <2>3, <2>4
<1> QED BY <1>1, <1>2, <1>3

\* mtd_erase_blocks pads the last block with zeros.
LEMMA PadCarries ==
    ASSUME Fla!TypeOK, Fla!ProgramsOrdered, Carried(fpc, fwr, fp, phase, flash), tool \in {"flash", "raw"},
           NEW x, Fla!Pad(x), flash' = flash, fp' = fp, phase' = phase,
           fpc = x, x \in {"erase", "open_erase"}
    PROVE  Carried(fpc', fwr', fp', phase', flash')
<1> DEFINE ls == Len(fwr.stored)
           u == Fla!Upto(fwr.fd)
           buf == fwr.stored \o [i \in 1 .. BlockUnits - Len(fwr.stored) |-> Fla!Zero]
<1>1. WrittenIn(flash, fwr.fd, fp, phase) /\ PendingIn(fpc, fwr, fp, phase)
  BY DEF Carried, PlacedIn
<1>2. /\ fwr.stored # <<>> /\ fpc' = "block" /\ fwr'.pos = fwr.fd /\ fwr'.data = buf
      /\ fwr'.todo = fwr.todo /\ fwr'.ret = x
  <2> HIDE DEF buf
  <2> QED BY PadHanded DEF buf
<1>3. fwr.stored \in Seq(Int) /\ ls <= BlockUnits
  BY ContextParts, FlashNumbers
<1>4. \A j \in 1 .. BlockUnits : buf[j] = IF j <= ls THEN fwr.stored[j] ELSE 0
  BY <1>3, Padded DEF Fla!Zero
<1>5. ls \in Nat /\ u \in Nat /\ fp \in Nat /\ BlockUnits \in Nat /\ ls > 0
  <2>1. ls \in Nat /\ u \in Nat /\ fp \in Nat /\ BlockUnits \in Nat
    BY FlashNumbers
  <2>2. ls # 0
    BY <1>2, <1>3
  <2> QED BY <2>1, <2>2
<1>6. fwr.todo = <<>> /\ u + ls = fp
  <2>1. fwr.todo = <<>> /\ Len(<<>>) = 0
    BY <1>1 DEF PendingIn
  <2>2. u + ls + Len(fwr.todo) = fp
    BY <1>1, <1>2 DEF PendingIn
  <2> QED BY <1>5, <2>1, <2>2
<1>7. \A j \in 1 .. ls : fwr.stored[j] = StreamIn(phase, u + j)
  BY <1>1 DEF PendingIn
<1> HIDE DEF ls, u, buf
<1>8. ASSUME NEW j \in 1 .. BlockUnits PROVE buf[j] = UnitIn(fp, phase, u + j)
  <2>1. CASE j <= ls
    <3>1. j \in 1 .. ls /\ u + j <= fp
      BY <1>5, <1>6, <2>1
    <3>2. buf[j] = fwr.stored[j]
      BY <1>4, <2>1
    <3> QED BY <1>7, <3>1, <3>2 DEF UnitIn
  <2>2. CASE ~(j <= ls)
    <3>1. ~(u + j <= fp)
      BY <1>5, <1>6, <2>2
    <3>2. buf[j] = 0
      BY <1>4, <2>2
    <3> QED BY <3>1, <3>2 DEF UnitIn
  <2> QED BY <2>1, <2>2
<1>9. u < fp /\ fp <= u + BlockUnits
  BY <1>3, <1>5, <1>6
<1>10. LoadedIn(fwr', fp', phase')
  BY <1>2, <1>6, <1>8, <1>9 DEF LoadedIn, u
<1>11. PlacedIn(fpc', fwr', fp', phase', flash')
  BY <1>1, <1>2, <1>10 DEF PlacedIn
<1>12. PassesIn(fpc', fwr', fp', phase', flash')
  <2>1. ~(tool = "flash" /\ phase = "seal")
    <3> SUFFICES ASSUME tool = "flash", phase = "seal" PROVE FALSE
      OBVIOUS
    <3>1. fp = BlockUnits /\ u >= BlockUnits
      BY DEF Carried, PassesIn, u
    <3> QED BY <1>5, <1>6, <3>1
  <2> QED BY <1>2, <2>1 DEF Carried, PassesIn
<1>13. TailIn(fpc', fwr', phase', flash')
  <2>1. tool = "raw" => x = "open_erase"
    BY <1>2 DEF Carried, TailIn
  <2>2. tool = "raw" => phase = "tail"
    BY <2>1 DEF Fla!ProgramsOrdered
  <2> QED BY <1>2, <2>1, <2>2 DEF TailIn
<1> QED BY <1>11, <1>12, <1>13 DEF Carried

\* mtd_erase_blocks counts the blocks behind the written ones.
LEMMA OpenEraseCarries ==
    ASSUME Fla!TypeOK, Fla!ProgramsOrdered, Carried(fpc, fwr, fp, phase, flash), tool \in {"flash", "raw"},
           Fla!OpenErase
    PROVE  Carried(fpc', fwr', fp', phase', flash')
<1>1. fpc = "open_erase" /\ flash' = flash /\ fp' = fp /\ phase' = phase
  BY DEF Fla!OpenErase
<1>2. tool = "raw" /\ phase = "tail"
  BY <1>1 DEF Fla!ProgramsOrdered
<1>3. CASE Fla!Pad("open_erase")
  BY <1>1, <1>3, PadCarries
<1>4. CASE /\ fwr.stored = <<>> /\ fpc' = "erase"
           /\ fwr' = [fwr EXCEPT !.n = NBlocks - fwr.fd, !.pos = fwr.fd]
  <2>0. fwr \in Fla!MtdWriteContext
    BY DEF Fla!TypeOK
  <2>1. fwr'.fd = fwr.fd /\ fwr'.pos = fwr.fd /\ fwr'.stored = fwr.stored /\ fwr'.todo = fwr.todo
    BY <1>4, <2>0 DEF Fla!MtdWriteContext
  <2>2. PlacedIn(fpc', fwr', fp', phase', flash')
    BY <1>1, <1>4, <2>1 DEF Carried, PlacedIn, PendingIn
  <2>3. PassesIn(fpc', fwr', fp', phase', flash')
    BY <1>1, <1>2, <1>4 DEF Carried, PassesIn
  <2>4. ErasedIn(flash', fwr'.fd, fwr'.pos)
    <3>1. \A b \in Fla!Good : ~(fwr.fd <= b /\ b < fwr.fd)
      BY Places, FlashNumbers DEF Fla!Blocks
    <3> QED BY <2>1, <3>1 DEF ErasedIn
  <2>5. fwr'.fd <= fwr'.pos
    BY <2>1, FlashNumbers
  <2>6. TailIn(fpc', fwr', phase', flash')
    BY <1>1, <1>2, <1>4, <2>1, <2>4, <2>5 DEF TailIn
  <2> QED BY <2>2, <2>3, <2>6 DEF Carried
<1> QED BY <1>3, <1>4 DEF Fla!OpenErase

\* mtd_erase_blocks leaves what is in front of the file position.
LEMMA EraseCarries ==
    ASSUME Fla!TypeOK, Fla!ProgramsOrdered, Carried(fpc, fwr, fp, phase, flash), tool \in {"flash", "raw"},
           Fla!mtd_erase_blocks, Fla!Sound'
    PROVE  Carried(fpc', fwr', fp', phase', flash')
<1>1. fpc = "erase" /\ fp' = fp /\ phase' = phase /\ hist' = {}
  BY DEF Fla!mtd_erase_blocks, Fla!Sound
<1>2. CASE Fla!Pad("erase") /\ flash' = flash
  BY <1>1, <1>2, PadCarries
<1>3. CASE fwr.stored = <<>> /\ fwr.n = 0 /\ fpc' = "main" /\ UNCHANGED <<flash, fwr>>
  <2>1. PlacedIn(fpc', fwr', fp', phase', flash')
    BY <1>1, <1>3 DEF Carried, PlacedIn, PendingIn
  <2>2. PassesIn(fpc', fwr', fp', phase', flash')
    BY <1>1, <1>3 DEF Carried, PassesIn
  <2>3. ASSUME tool = "raw", phase = "tail" PROVE ErasedIn(flash, fwr.fd, NBlocks)
    <3>1. fwr.n = NBlocks - fwr.pos
      BY <1>1, <2>3 DEF Fla!ProgramsOrdered
    <3>2. fwr.pos = NBlocks
      BY <1>3, <3>1, FlashNumbers
    <3> QED BY <1>1, <2>3, <3>2 DEF Carried, TailIn
  <2>4. TailIn(fpc', fwr', phase', flash')
    BY <1>1, <1>3, <2>3 DEF Carried, TailIn
  <2> QED BY <2>1, <2>2, <2>4 DEF Carried
<1>4. CASE /\ fwr.stored = <<>> /\ fwr.n > 0 /\ fwr' = [fwr EXCEPT !.n = @ - 1, !.pos = @ + 1] /\ fpc' = fpc
           /\ \/ fwr.pos \in marked /\ flash' = flash
              \/ fwr.pos \notin marked /\ flash' = [flash EXCEPT ![fwr.pos] = Fla!ErasedBlock]
  <2>0. fwr \in Fla!MtdWriteContext
    BY DEF Fla!TypeOK
  <2>1. fwr'.fd = fwr.fd /\ fwr'.pos = fwr.pos + 1 /\ fwr'.stored = fwr.stored /\ fwr'.todo = fwr.todo
    BY <1>4, <2>0 DEF Fla!MtdWriteContext
  <2>2. fwr.n # 0
    BY <1>4
  <2>3. tool = "raw" /\ phase = "tail" /\ fwr.n = NBlocks - fwr.pos
    BY <1>1, <2>2 DEF Fla!ProgramsOrdered
  <2>4. fwr.fd <= fwr.pos /\ ErasedIn(flash, fwr.fd, fwr.pos)
    BY <1>1, <2>3 DEF Carried, TailIn
  <2>5. fwr.fd \in Int /\ fwr.pos \in Int /\ DOMAIN flash = Fla!Blocks /\ \A b \in Fla!Good : b \in Int /\ b \in Fla!Blocks
    <3>1. fwr.fd \in Int /\ fwr.pos \in Int
      BY FlashNumbers
    <3>2. DOMAIN flash = Fla!Blocks
      BY DEF Fla!TypeOK, Fla!DeviceOK
    <3>3. \A b \in Fla!Good : b \in Int /\ b \in Fla!Blocks
      BY Places, FlashNumbers DEF Fla!Blocks
    <3> QED BY <3>1, <3>2, <3>3
  <2>6. \A b \in Fla!Good : b # fwr.pos => flash'[b] = flash[b]
    BY <1>4, <2>5
  <2>7. fwr.pos \in Fla!Good => flash'[fwr.pos] = Fla!ErasedBlock
    BY <1>4, <2>5 DEF Fla!Good
  <2>8. ErasedIn(flash', fwr.fd, fwr.pos + 1)
    <3> SUFFICES ASSUME NEW b \in Fla!Good, fwr.fd <= b, b < fwr.pos + 1 PROVE flash'[b] = Fla!ErasedBlock
      BY DEF ErasedIn
    <3>1. CASE b = fwr.pos
      BY <2>7, <3>1
    <3>2. CASE b # fwr.pos
      <4>1. b < fwr.pos
        BY <2>5, <3>2
      <4> QED BY <2>4, <2>6, <3>2, <4>1 DEF ErasedIn
    <3> QED BY <3>1, <3>2
  <2>9. \A b \in Fla!Good : b < fwr.fd => flash'[b] = flash[b]
    <3>1. \A b \in Fla!Good : b < fwr.fd => b # fwr.pos
      BY <2>4, <2>5
    <3> QED BY <2>6, <3>1
  <2>10. PlacedIn(fpc', fwr', fp', phase', flash')
    <3>1. WrittenIn(flash', fwr'.fd, fp', phase')
      BY <1>1, <2>1, <2>9 DEF Carried, PlacedIn, WrittenIn
    <3> QED BY <1>1, <1>4, <2>1, <3>1 DEF Carried, PlacedIn, PendingIn
  <2>11. PassesIn(fpc', fwr', fp', phase', flash')
    BY <1>1, <1>4, <2>3 DEF Carried, PassesIn
  <2>12. fwr'.fd <= fwr'.pos
    BY <2>1, <2>4, <2>5
  <2>13. TailIn(fpc', fwr', phase', flash')
    BY <1>1, <1>4, <2>1, <2>3, <2>8, <2>12 DEF TailIn
  <2> QED BY <2>10, <2>11, <2>13 DEF Carried
<1> QED BY <1>1, <1>2, <1>3, <1>4 DEF Fla!mtd_erase_blocks

\* Every step keeps the data in place.
LEMMA FlashData ==
    ASSUME Fla!TypeOK, Fla!ProgramsOrdered, DataKept, Fla!Next
    PROVE  DataKept'
<1>1. marked' = marked /\ img' = img /\ tool' = tool
  BY DEF Fla!Next, Fla!Scan, Fla!FlashCheck, Fla!FlashMain, Fla!RawMain, Fla!EraseMain, Fla!mtd_write_data,
         Fla!BlockMarked, Fla!BlockErase, Fla!BlockProgram, Fla!BlockGiveUp, Fla!BlockNoSpace,
         Fla!OpenErase, Fla!mtd_erase_blocks, Fla!mtd_read_data, Fla!DumpUnit, Fla!Restart, Fla!Crash
<1> SUFFICES ASSUME Fla!Sound', tool \in {"flash", "raw"}, Fla!Writing'
             PROVE  Carried(fpc', fwr', fp', phase', flash')
  BY <1>1, DataThen
<1>2. hist' = {} /\ ~fwr'.failed /\ fpc' \in {"block", "program", "write", "main", "erase", "open_erase"}
  BY DEF Fla!Sound, Fla!Writing, Fla!InBlock
<1>0. fwr \in Fla!MtdWriteContext
  BY DEF Fla!TypeOK
<1>3. Fla!Sound /\ Fla!Writing => Carried(fpc, fwr, fp, phase, flash)
  BY DataNow
<1>4. CASE Fla!Scan
  BY <1>4, ScanCarries
<1>5. CASE Fla!FlashCheck
  BY <1>5, CheckCarries
<1>6. CASE Fla!FlashMain
  <2>1. fpc = "main" /\ hist' = hist /\ tool = "flash"
    BY <1>6 DEF Fla!FlashMain
  <2>2. ~fwr.failed
    BY <2>1 DEF Fla!ProgramsOrdered
  <2>3. Fla!Sound /\ Fla!Writing
    BY <1>2, <2>1, <2>2 DEF Fla!Sound, Fla!Writing
  <2> QED BY <1>3, <1>6, <2>3, FlashMainCarries
<1>7. CASE Fla!RawMain
  <2>1. fpc = "main" /\ (hist' = hist \/ hist' = hist \cup {"file"})
    BY <1>7 DEF Fla!RawMain
  <2>2. ~fwr.failed
    <3>1. fwr' = fwr \/ fwr' = [fwr EXCEPT !.n = 0] \/ Fla!CopyUnit
      BY <1>7 DEF Fla!RawMain
    <3> QED BY <1>2, <3>1, CountSet, UnitCopied
  <2>3. Fla!Sound /\ Fla!Writing
    BY <1>2, <2>1, <2>2 DEF Fla!Sound, Fla!Writing
  <2> QED BY <1>3, <1>7, <2>3, RawMainCarries
<1>8. CASE Fla!mtd_write_data
  <2>1. fpc = "write" /\ hist' = hist
    BY <1>8 DEF Fla!mtd_write_data
  <2>2. ~fwr.failed
    BY <2>1 DEF Fla!ProgramsOrdered
  <2>3. Fla!Sound /\ Fla!Writing
    BY <1>2, <2>1, <2>2 DEF Fla!Sound, Fla!Writing
  <2> QED BY <1>3, <1>8, <2>3, WriteDataCarries
<1>9. CASE Fla!BlockMarked \/ Fla!BlockErase \/ Fla!BlockProgram
  <2>1. fpc \in {"block", "program"} /\ hist' = hist
    BY <1>9 DEF Fla!BlockMarked, Fla!BlockErase, Fla!BlockProgram
  <2>2. ~fwr.failed
    BY <1>2, <1>9, BlockMarkedStep, BlockEraseStep, BlockProgramStep
  <2>3. Fla!Sound /\ Fla!Writing
    BY <1>2, <2>1, <2>2 DEF Fla!Sound, Fla!Writing, Fla!InBlock
  <2> QED BY <1>3, <1>9, <2>3, BlockCarries
<1>10. CASE Fla!BlockGiveUp
  BY <1>2, <1>10 DEF Fla!BlockGiveUp
<1>11. CASE Fla!BlockNoSpace
  <2>1. \/ fpc' = "end"
        \/ fpc' = "main" /\ fwr.ret = "write"
        \/ hist' = hist \cup {"last"}
    BY <1>11 DEF Fla!BlockNoSpace, Fla!Exit
  <2> QED BY <1>2, <1>11, <2>1, BlockNoSpaceStep
<1>12. CASE Fla!OpenErase
  <2>1. fpc = "open_erase" /\ hist' = hist
    BY <1>12 DEF Fla!OpenErase
  <2>2. ~fwr.failed
    <3>1. \/ Fla!Pad("open_erase")
          \/ fwr' = [fwr EXCEPT !.n = NBlocks - fwr.fd, !.pos = fwr.fd]
      BY <1>12 DEF Fla!OpenErase
    <3>2. CASE Fla!Pad("open_erase")
      BY <1>2, <3>2, PadHanded
    <3>3. CASE fwr' = [fwr EXCEPT !.n = NBlocks - fwr.fd, !.pos = fwr.fd]
      BY <1>0, <1>2, <3>3 DEF Fla!MtdWriteContext
    <3> QED BY <3>1, <3>2, <3>3
  <2>3. Fla!Sound /\ Fla!Writing
    BY <1>2, <2>1, <2>2 DEF Fla!Sound, Fla!Writing
  <2> QED BY <1>3, <1>12, <2>3, OpenEraseCarries
<1>13. CASE Fla!mtd_erase_blocks
  <2>1. fpc = "erase" /\ (hist' = hist \/ hist' = hist \cup {"erase"})
    BY <1>13 DEF Fla!mtd_erase_blocks
  <2>2. ~fwr.failed
    <3>1. \/ Fla!Pad("erase") \/ fwr' = fwr
          \/ fwr' = [fwr EXCEPT !.n = @ - 1, !.pos = @ + 1]
      BY <1>13 DEF Fla!mtd_erase_blocks
    <3>2. CASE Fla!Pad("erase")
      BY <1>2, <3>2, PadHanded
    <3>3. CASE fwr' = [fwr EXCEPT !.n = @ - 1, !.pos = @ + 1]
      BY <1>0, <1>2, <3>3 DEF Fla!MtdWriteContext
    <3> QED BY <1>2, <3>1, <3>2, <3>3
  <2>3. Fla!Sound /\ Fla!Writing
    BY <1>2, <2>1, <2>2 DEF Fla!Sound, Fla!Writing
  <2> QED BY <1>3, <1>13, <2>3, EraseCarries
<1>14. CASE Fla!mtd_read_data \/ Fla!DumpUnit
  <2>1. fpc = "dump"
    BY <1>14 DEF Fla!mtd_read_data, Fla!DumpUnit
  <2> QED BY <2>1 DEF Fla!ProgramsOrdered
<1>15. CASE Fla!EraseMain \/ Fla!Restart \/ Fla!Crash
  BY <1>2, <1>15 DEF Fla!EraseMain, Fla!Exit, Fla!Restart, Fla!Crash
<1> QED BY <1>4, <1>5, <1>6, <1>7, <1>8, <1>9, <1>10, <1>11, <1>12, <1>13, <1>14, <1>15 DEF Fla!Next

\* The header stays off the partition while a block is written, unless the
\* body is already there.
LEMMA HeaderOff ==
    ASSUME Fla!TypeOK, Fla!ProgramsOrdered, DataKept, Fla!InBlock, fwr.pos \in Fla!Good,
           tool = "flash", "gave_up" \notin hist,
           \A c \in Fla!Good : c # fwr.pos => flash'[c] = flash[c],
           flash'[fwr.pos][1] \in {255, 254, fwr.data[1]},
           NEW b \in Fla!Good, Fla!Upto(b) = 0, flash'[b][1] = Fla!Header
    PROVE  HoldsIn(flash', BlockUnits + 1)
<1>1. Carried(fpc, fwr, fp, phase, flash)
  <2>1. hist = {} /\ ~fwr.failed
    BY DEF Fla!ProgramsOrdered
  <2> QED BY <2>1, DataNow DEF Fla!Sound, Fla!Writing
<1>2. WrittenIn(flash, fwr.pos, fp, phase) /\ LoadedIn(fwr, fp, phase) /\ fp > 0
  BY <1>1 DEF Carried, PlacedIn, PassesIn, Fla!InBlock
<1>3. CASE phase = "rest"
  BY <1>1, <1>3, BodyKept
<1>4. CASE phase \in {"zero", "close"}
  <2>1. UnitIn(fp, phase, 1) = 0
    BY <1>4 DEF UnitIn, StreamIn
  <2>2. Fla!Header \notin {0, 255, 254}
    BY DEF Fla!TypeOK, Fla!DeviceOK, Fla!Zero, Fla!Blank
  <2>3. b \in Fla!Blocks /\ fwr.pos \in Fla!Blocks /\ DOMAIN flash = Fla!Blocks
    BY Places DEF Fla!TypeOK, Fla!DeviceOK
  <2>4. 1 \in 1 .. BlockUnits /\ 0 + 1 = 1
    BY FlashNumbers
  <2>5. CASE b = fwr.pos
    <3>1. fwr.data[1] = 0
      BY <1>2, <2>1, <2>4, <2>5 DEF LoadedIn
    <3> QED BY <2>2, <2>5, <3>1
  <2>6. CASE b # fwr.pos
    <3>1. b \in Int /\ fwr.pos \in Int /\ b \in 0 .. NBlocks
      BY <2>3, FlashNumbers DEF Fla!Blocks
    <3>2. ~(fwr.pos < b)
      <4>1. fwr.pos < b => Fla!Upto(fwr.pos) + BlockUnits <= Fla!Upto(b)
        BY <3>1, Places
      <4> QED BY <4>1, FlashNumbers
    <3>3. b < fwr.pos
      BY <2>6, <3>1, <3>2
    <3>4. flash[b][1] = 0
      BY <1>2, <2>1, <2>4, <3>3 DEF WrittenIn
    <3>5. flash'[b] = flash[b]
      BY <2>6
    <3> QED BY <2>2, <3>4, <3>5
  <2> QED BY <2>5, <2>6
<1> QED BY <1>1, <1>3, <1>4, BlockPasses

\* A header means the body: every step keeps it so.
LEMMA FlashHeader ==
    ASSUME Fla!TypeOK, Fla!ProgramsOrdered, DataKept, Fla!HeaderMeansBody, Fla!Next
    PROVE  Fla!HeaderMeansBody'
<1>1. marked' = marked /\ img' = img /\ tool' = tool
  BY DEF Fla!Next, Fla!Scan, Fla!FlashCheck, Fla!FlashMain, Fla!RawMain, Fla!EraseMain, Fla!mtd_write_data,
         Fla!BlockMarked, Fla!BlockErase, Fla!BlockProgram, Fla!BlockGiveUp, Fla!BlockNoSpace,
         Fla!OpenErase, Fla!mtd_erase_blocks, Fla!mtd_read_data, Fla!DumpUnit, Fla!Restart, Fla!Crash
<1>2. Fla!Good' = Fla!Good /\ (\A b : Fla!Upto(b)' = Fla!Upto(b)) /\ Fla!Header' = Fla!Header
  BY <1>1 DEF Fla!Good, Fla!Upto, Fla!UnitsOn, Fla!Header
<1>3. HoldsIn(flash', BlockUnits + 1) => Fla!Holds(img, BlockUnits + 1)'
  <2>1. Fla!UnitsOn(Fla!Good)' = Fla!UnitsOn(Fla!Good)
    BY <1>2 DEF Fla!UnitsOn
  <2> QED BY <1>1, <1>2, <2>1 DEF Fla!Holds, HoldsIn
<1> SUFFICES ASSUME tool = "flash", "gave_up" \notin hist',
                    NEW b \in Fla!Good, Fla!Upto(b) = 0, flash'[b][1] = Fla!Header
             PROVE  HoldsIn(flash', BlockUnits + 1)
  <2>1. (\E b \in Fla!Good' : Fla!Upto(b)' = 0 /\ flash'[b][1] = Fla!Header')
           => \E b \in Fla!Good : Fla!Upto(b) = 0 /\ flash'[b][1] = Fla!Header
    BY <1>2
  <2> QED BY <1>1, <1>2, <1>3, <2>1 DEF Fla!HeaderMeansBody
<1>4. CASE flash' = flash /\ "gave_up" \notin hist
  <2>1. Fla!Holds(img, BlockUnits + 1)
    BY <1>4 DEF Fla!HeaderMeansBody
  <2> QED BY <1>4, <2>1 DEF Fla!Holds, HoldsIn
<1>5. ASSUME Fla!InBlock, fwr.pos \in Fla!Good, "gave_up" \notin hist,
             NEW x, x[1] \in {255, 254, fwr.data[1]}, flash' = [flash EXCEPT ![fwr.pos] = x]
      PROVE  HoldsIn(flash', BlockUnits + 1)
  <2>1. fwr.pos \in Fla!Blocks /\ DOMAIN flash = Fla!Blocks
    BY <1>5, Places DEF Fla!TypeOK, Fla!DeviceOK
  <2>2. flash'[fwr.pos] = x
    BY <1>5, <2>1
  <2>3. flash'[fwr.pos][1] \in {255, 254, fwr.data[1]}
    BY <1>5, <2>2
  <2>4. \A c \in Fla!Good : c # fwr.pos => flash'[c] = flash[c]
    BY <1>5, OtherBlocks
  <2> QED BY <1>5, <2>3, <2>4, HeaderOff
<1>6. /\ 1 \in 1 .. BlockUnits /\ Fla!ErasedBlock[1] = 255 /\ Fla!Junk[1] = 254
  BY FlashNumbers DEF Fla!ErasedBlock, Fla!Junk, Fla!Blank
<1>7. CASE Fla!BlockErase
  <2>1. /\ fpc = "block" /\ hist' = hist /\ fwr.pos < NBlocks /\ fwr.pos \notin marked
        /\ (flash' = flash \/ flash' = [flash EXCEPT ![fwr.pos] = Fla!ErasedBlock])
    BY <1>7 DEF Fla!BlockErase
  <2>2. fwr.pos \in Fla!Good
    BY <2>1, FlashNumbers DEF Fla!Good, Fla!Blocks
  <2> QED BY <1>4, <1>5, <1>6, <2>1, <2>2 DEF Fla!InBlock
<1>8. CASE Fla!BlockProgram
  <2>1. fpc = "program" /\ hist' = hist
    BY <1>8 DEF Fla!BlockProgram
  <2>2. fwr.pos \in Fla!Good
    BY <2>1 DEF Fla!ProgramsOrdered
  <2>3. flash' = [flash EXCEPT ![fwr.pos] = fwr.data] \/ flash' = [flash EXCEPT ![fwr.pos] = Fla!Junk]
    BY <1>8, BlockProgramStep
  <2> QED BY <1>5, <1>6, <2>1, <2>2, <2>3 DEF Fla!InBlock
<1>9. CASE Fla!Crash
  <2>1. hist' = hist
    BY <1>9 DEF Fla!Crash
  <2>2. CASE fpc # "program"
    BY <1>4, <1>9, <2>1, <2>2 DEF Fla!Crash
  <2>3. CASE fpc = "program"
    <3>1. PICK k \in 0 .. BlockUnits :
             flash' = [flash EXCEPT ![fwr.pos] =
                         [i \in 1 .. BlockUnits |-> IF i <= k THEN fwr.data[i] ELSE Fla!Blank]]
      BY <1>9, <2>3 DEF Fla!Crash
    <3> DEFINE x == [i \in 1 .. BlockUnits |-> IF i <= k THEN fwr.data[i] ELSE Fla!Blank]
    <3>2. x[1] \in {255, 254, fwr.data[1]}
      BY <1>6 DEF Fla!Blank
    <3>3. fwr.pos \in Fla!Good
      BY <2>3 DEF Fla!ProgramsOrdered
    <3> HIDE DEF x
    <3>4. flash' = [flash EXCEPT ![fwr.pos] = x]
      BY <3>1 DEF x
    <3>5. Fla!InBlock /\ "gave_up" \notin hist
      BY <2>1, <2>3 DEF Fla!InBlock
    <3>6. fwr.pos \in Fla!Blocks /\ DOMAIN flash = Fla!Blocks
      BY <3>3, Places DEF Fla!TypeOK, Fla!DeviceOK
    <3>7. flash'[fwr.pos][1] \in {255, 254, fwr.data[1]}
      BY <3>2, <3>4, <3>6
    <3>8. \A c \in Fla!Good : c # fwr.pos => flash'[c] = flash[c]
      BY <3>4, OtherBlocks
    <3> QED BY <3>3, <3>5, <3>7, <3>8, HeaderOff
  <2> QED BY <2>2, <2>3
<1>10. CASE Fla!mtd_erase_blocks
  <2>1. fpc = "erase" /\ fwr.n = 0
    BY <1>10 DEF Fla!mtd_erase_blocks, Fla!ProgramsOrdered
  <2>2. flash' = flash /\ hist' = hist
    BY <1>10, <2>1 DEF Fla!mtd_erase_blocks
  <2> QED BY <1>4, <2>2
<1>11. CASE Fla!BlockGiveUp
  BY <1>11 DEF Fla!BlockGiveUp
<1>12. CASE \/ Fla!Scan \/ Fla!FlashCheck \/ Fla!FlashMain \/ Fla!RawMain \/ Fla!EraseMain \/ Fla!mtd_write_data
            \/ Fla!BlockMarked \/ Fla!BlockNoSpace \/ Fla!OpenErase \/ Fla!mtd_read_data \/ Fla!DumpUnit
            \/ Fla!Restart
  <2>1. flash' = flash /\ hist \subseteq hist'
    BY <1>12 DEF Fla!Scan, Fla!FlashCheck, Fla!FlashMain, Fla!RawMain, Fla!EraseMain, Fla!mtd_write_data,
         Fla!BlockMarked, Fla!BlockNoSpace, Fla!OpenErase, Fla!mtd_read_data, Fla!DumpUnit, Fla!Restart
  <2> QED BY <1>4, <2>1
<1> QED BY <1>7, <1>8, <1>9, <1>10, <1>11, <1>12 DEF Fla!Next

\* A success of flash_image: the whole image is on the good blocks.
LEMMA SealHolds ==
    ASSUME Fla!TypeOK, Carried(fpc, fwr, fp, phase, flash), tool = "flash", fpc = "main", phase = "seal"
    PROVE  HoldsIn(flash, 1)
<1>1. WrittenIn(flash, fwr.fd, fp, phase)
  BY DEF Carried, PlacedIn
<1>2. fp = BlockUnits /\ Fla!Upto(fwr.fd) >= BlockUnits /\ HoldsIn(flash, BlockUnits + 1)
  BY DEF Carried, PassesIn
<1>3. ASSUME NEW b \in Fla!Good, NEW j \in 1 .. BlockUnits, Fla!Upto(b) + j \in 1 .. Len(img)
      PROVE  flash[b][j] = img[Fla!Upto(b) + j]
  <2>1. CASE Fla!Upto(b) + j <= BlockUnits
    <3>1. Fla!Upto(b) + j <= Fla!Upto(fwr.fd)
      BY <1>2, <1>3, <2>1, FlashNumbers
    <3>2. b < fwr.fd
      BY <3>1, Places, FlashNumbers
    <3>3. flash[b][j] = UnitIn(fp, phase, Fla!Upto(b) + j)
      BY <1>1, <3>2 DEF WrittenIn
    <3> QED BY <1>2, <2>1, <3>3 DEF UnitIn, StreamIn
  <2>2. CASE ~(Fla!Upto(b) + j <= BlockUnits)
    <3>1. Fla!Upto(b) + j \in BlockUnits + 1 .. Len(img)
      BY <1>3, <2>2, FlashNumbers
    <3> QED BY <1>2, <3>1 DEF HoldsIn
  <2> QED BY <2>1, <2>2
<1> QED BY <1>2, <1>3 DEF HoldsIn

\* A success of write_raw_image: the image, zeros up to the end of its last
\* block, and erased blocks.
LEMMA RawHolds ==
    ASSUME Fla!TypeOK, Carried(fpc, fwr, fp, phase, flash), tool = "raw", fpc = "main", phase = "close"
    PROVE  /\ HoldsIn(flash, 1)
           /\ \A b \in Fla!Good, j \in 1 .. BlockUnits :
                 Fla!Upto(b) + j > Len(img) => flash[b][j] = IF Fla!Upto(b) < Len(img) THEN 0 ELSE 255
<1>1. /\ Len(img) <= Fla!Upto(fwr.fd) /\ Fla!Upto(fwr.fd) < Len(img) + BlockUnits
      /\ Len(img) <= Fla!UnitsOn(Fla!Good)
  BY BodyWritten
<1>2. HoldsIn(flash, 1)
  <2>1. ASSUME NEW b \in Fla!Good, NEW j \in 1 .. BlockUnits, Fla!Upto(b) + j \in 1 .. Len(img)
        PROVE  flash[b][j] = img[Fla!Upto(b) + j]
    <3>1. Fla!Upto(b) + j <= Len(img)
      BY <2>1, FlashNumbers
    <3> QED BY <3>1, BodyWritten DEF StreamIn
  <2> QED BY <1>1, <2>1 DEF HoldsIn
<1>3. /\ WrittenIn(flash, fwr.fd, fp, phase) /\ fp = Len(img) /\ ErasedIn(flash, fwr.fd, NBlocks)
  BY DEF Carried, PlacedIn, PassesIn, CopyingIn, TailIn
<1>4. ASSUME NEW b \in Fla!Good, NEW j \in 1 .. BlockUnits, Fla!Upto(b) + j > Len(img)
      PROVE  flash[b][j] = IF Fla!Upto(b) < Len(img) THEN 0 ELSE 255
  <2>1. b \in Int /\ b \in 0 .. NBlocks /\ b < NBlocks /\ fwr.fd \in Int
    BY Places, FlashNumbers DEF Fla!Blocks
  <2>2. Fla!Upto(b) \in Nat
    BY <2>1, Places
  <2>3. CASE b < fwr.fd
    <3>1. Fla!Upto(b) + BlockUnits <= Fla!Upto(fwr.fd)
      BY <2>3, Places, FlashNumbers
    <3>2. Fla!Upto(b) < Len(img)
      <4>1. \A u, v, l, n \in Nat : u + n <= v /\ v < l + n => u < l
        OBVIOUS
      <4>2. Fla!Upto(fwr.fd) \in Nat /\ Len(img) \in Nat /\ BlockUnits \in Nat
        BY FlashNumbers
      <4> QED BY <1>1, <2>2, <3>1, <4>1, <4>2
    <3>3. flash[b][j] = UnitIn(fp, phase, Fla!Upto(b) + j)
      BY <1>3, <2>3 DEF WrittenIn
    <3>4. ~(Fla!Upto(b) + j <= fp)
      BY <1>3, <1>4, <2>2, FlashNumbers
    <3> QED BY <3>2, <3>3, <3>4 DEF UnitIn
  <2>4. CASE ~(b < fwr.fd)
    <3>1. fwr.fd <= b
      BY <2>1, <2>4
    <3>2. Fla!Upto(fwr.fd) <= Fla!Upto(b)
      BY <2>1, <3>1, Places, FlashNumbers
    <3>3. ~(Fla!Upto(b) < Len(img))
      BY <1>1, <2>2, <3>2, FlashNumbers
    <3>4. flash[b] = Fla!ErasedBlock
      BY <1>3, <2>1, <3>1 DEF ErasedIn
    <3> QED BY <3>3, <3>4 DEF Fla!ErasedBlock, Fla!Blank
  <2> QED BY <2>3, <2>4
<1> QED BY <1>2, <1>4

\* Before the first power loss the old contents stay until the first write.
LEMMA FlashOld ==
    ASSUME Fla!TypeOK, Fla!ProgramsOrdered, Fla!OldAtFirst, Fla!Next
    PROVE  Fla!OldAtFirst'
<1> SUFFICES ASSUME tool' = "flash", crashes' = 0, fpc' \in {"scan", "check"}
             PROVE  \A b \in Fla!Blocks : flash'[b] = Fla!OldBlock
  BY DEF Fla!OldAtFirst, Fla!OldBlock, Fla!Blocks
<1>1. CASE Fla!Scan
  BY <1>1 DEF Fla!Scan, Fla!OldAtFirst
<1>2. CASE Fla!Restart
  <2>1. fpc = "down" /\ crashes' = crashes
    BY <1>2 DEF Fla!Restart
  <2>2. crashes > 0
    BY <2>1 DEF Fla!ProgramsOrdered
  <2> QED BY <2>1, <2>2
<1>3. CASE Fla!BlockProgram
  <2>1. fpc = "program" /\ fpc' \in {"block", fwr.ret}
    BY <1>3 DEF Fla!BlockProgram
  <2>2. fwr.ret \in {"write", "erase", "open_erase"}
    BY <2>1 DEF Fla!ProgramsOrdered, Fla!InBlock
  <2> QED BY <2>1, <2>2
<1>4. CASE \/ Fla!FlashCheck \/ Fla!FlashMain \/ Fla!RawMain \/ Fla!EraseMain \/ Fla!mtd_write_data
           \/ Fla!BlockMarked \/ Fla!BlockErase \/ Fla!BlockGiveUp \/ Fla!BlockNoSpace \/ Fla!OpenErase
           \/ Fla!mtd_erase_blocks \/ Fla!mtd_read_data \/ Fla!DumpUnit \/ Fla!Crash
  BY <1>4 DEF Fla!FlashCheck, Fla!FlashMain, Fla!RawMain, Fla!EraseMain, Fla!mtd_write_data, Fla!CopyUnit,
       Fla!BlockMarked, Fla!BlockErase, Fla!BlockGiveUp, Fla!BlockNoSpace, Fla!OpenErase, Fla!Exit, Fla!Pad,
       Fla!WriteBlockOf, Fla!mtd_erase_blocks, Fla!mtd_read_data, Fla!DumpUnit, Fla!Crash
<1> QED BY <1>1, <1>2, <1>3, <1>4 DEF Fla!Next

\* What a program reports is true when it reports it.
LEMMA FlashReports ==
    ASSUME Fla!TypeOK, Fla!ProgramsOrdered, DataKept, Fla!OldAtFirst, Fla!Next
    PROVE  Fla!FlashedOnSuccess' /\ Fla!RawWrittenOnSuccess'
<1>1. /\ marked' = marked /\ img' = img /\ tool' = tool /\ fpc # "end"
      /\ \/ fexit' = fexit \/ fexit' = "error"
         \/ flash' = flash /\ hist' = hist /\ crashes' = crashes
  BY DEF Fla!Next, Fla!Scan, Fla!FlashCheck, Fla!FlashMain, Fla!RawMain, Fla!EraseMain, Fla!mtd_write_data,
         Fla!BlockMarked, Fla!BlockErase, Fla!BlockProgram, Fla!BlockGiveUp, Fla!BlockNoSpace, Fla!Exit,
         Fla!OpenErase, Fla!mtd_erase_blocks, Fla!mtd_read_data, Fla!DumpUnit, Fla!Restart, Fla!Crash
<1>2. fexit # "0"
  BY <1>1 DEF Fla!ProgramsOrdered
<1>3. /\ Fla!Good' = Fla!Good /\ \A b : Fla!Upto(b)' = Fla!Upto(b)
      /\ Fla!UnitsOn(Fla!Good)' = Fla!UnitsOn(Fla!Good)
  BY <1>1 DEF Fla!Good, Fla!Upto, Fla!UnitsOn
<1>4. ASSUME HoldsIn(flash', 1) PROVE Fla!Holds(img, 1)'
  BY <1>1, <1>3, <1>4 DEF Fla!Holds, HoldsIn
<1>5. ASSUME tool = "flash", fexit' = "0", crashes' = 0, "gave_up" \notin hist' PROVE HoldsIn(flash', 1)
  <2>1. flash' = flash /\ hist' = hist /\ crashes' = crashes
    BY <1>1, <1>2, <1>5
  <2>2. Fla!FlashCheck \/ Fla!FlashMain
    <3>1. CASE \/ Fla!Scan \/ Fla!RawMain \/ Fla!EraseMain \/ Fla!mtd_write_data
               \/ Fla!BlockMarked \/ Fla!BlockErase \/ Fla!BlockProgram \/ Fla!BlockGiveUp \/ Fla!BlockNoSpace
               \/ Fla!OpenErase \/ Fla!mtd_erase_blocks \/ Fla!Restart \/ Fla!Crash
      BY <1>2, <1>5, <3>1 DEF Fla!Scan, Fla!RawMain, Fla!EraseMain, Fla!mtd_write_data,
         Fla!BlockMarked, Fla!BlockErase, Fla!BlockProgram, Fla!BlockGiveUp, Fla!BlockNoSpace, Fla!Exit,
         Fla!OpenErase, Fla!mtd_erase_blocks, Fla!Restart, Fla!Crash
    <3>2. CASE Fla!mtd_read_data \/ Fla!DumpUnit
      BY <1>5, <3>2 DEF Fla!mtd_read_data, Fla!DumpUnit, Fla!ProgramsOrdered
    <3> QED BY <3>1, <3>2 DEF Fla!Next
  <2>3. CASE Fla!FlashCheck
    <3>1. fpc = "check" /\ \E b \in Fla!Blocks : flash[b][1] = Fla!Header
      <4>1. fpc = "check" /\ Fla!read_block(0) < NBlocks /\ flash[Fla!read_block(0)][1] = Fla!Header
        BY <1>2, <1>5, <2>3 DEF Fla!FlashCheck, Fla!Exit
      <4>2. Fla!read_block(0) \in Fla!Blocks
        <5>1. 0 \in 0 .. NBlocks
          BY FlashNumbers
        <5> QED BY <4>1, <5>1, BlockRead, FlashNumbers
      <4> QED BY <4>1, <4>2
    <3>2. \A b \in Fla!Blocks : flash[b] = Fla!OldBlock
      BY <1>5, <2>1, <3>1 DEF Fla!OldAtFirst
    <3>3. Fla!OldBlock[1] = 200
      BY FlashNumbers DEF Fla!OldBlock
    <3> QED BY <3>1, <3>2, <3>3 DEF Fla!TypeOK, Fla!DeviceOK
  <2>4. CASE Fla!FlashMain
    <3>1. fpc = "main" /\ phase = "seal"
      BY <1>2, <1>5, <2>4 DEF Fla!FlashMain, Fla!CopyUnit, Fla!Exit
    <3>2. Fla!Sound /\ Fla!Writing
      BY <1>5, <2>1, <3>1 DEF Fla!ProgramsOrdered, Fla!Sound, Fla!Writing
    <3> QED BY <1>5, <2>1, <3>1, <3>2, DataNow, SealHolds
  <2> QED BY <2>2, <2>3, <2>4
<1>6. ASSUME tool = "raw", fexit' = "0", hist' = {}
      PROVE  /\ HoldsIn(flash', 1)
             /\ \A b \in Fla!Good, j \in 1 .. BlockUnits :
                   Fla!Upto(b) + j > Len(img) => flash'[b][j] = IF Fla!Upto(b) < Len(img) THEN 0 ELSE 255
  <2>1. flash' = flash /\ hist' = hist
    BY <1>1, <1>2, <1>6
  <2>2. Fla!RawMain
    <3>1. CASE \/ Fla!Scan \/ Fla!FlashMain \/ Fla!EraseMain \/ Fla!mtd_write_data
               \/ Fla!BlockMarked \/ Fla!BlockErase \/ Fla!BlockProgram \/ Fla!BlockGiveUp \/ Fla!BlockNoSpace
               \/ Fla!OpenErase \/ Fla!mtd_erase_blocks \/ Fla!Restart \/ Fla!Crash
      BY <1>2, <1>6, <3>1 DEF Fla!Scan, Fla!FlashMain, Fla!EraseMain, Fla!mtd_write_data,
         Fla!BlockMarked, Fla!BlockErase, Fla!BlockProgram, Fla!BlockGiveUp, Fla!BlockNoSpace, Fla!Exit,
         Fla!OpenErase, Fla!mtd_erase_blocks, Fla!Restart, Fla!Crash
    <3>2. CASE Fla!FlashCheck \/ Fla!mtd_read_data \/ Fla!DumpUnit
      BY <1>6, <3>2 DEF Fla!FlashCheck, Fla!mtd_read_data, Fla!DumpUnit, Fla!ProgramsOrdered
    <3> QED BY <3>1, <3>2 DEF Fla!Next
  <2>3. fpc = "main" /\ phase = "close" /\ ~fwr.failed
    BY <1>2, <1>6, <2>2 DEF Fla!RawMain, Fla!CopyUnit, Fla!Exit
  <2>4. Fla!Sound /\ Fla!Writing
    BY <1>6, <2>1, <2>3 DEF Fla!Sound, Fla!Writing
  <2> QED BY <1>6, <2>1, <2>3, <2>4, DataNow, RawHolds
<1>7. Fla!FlashedOnSuccess'
  BY <1>1, <1>4, <1>5 DEF Fla!FlashedOnSuccess
<1>8. Fla!RawWrittenOnSuccess'
  BY <1>1, <1>3, <1>4, <1>6 DEF Fla!RawWrittenOnSuccess, Fla!Zero, Fla!Blank
<1> QED BY <1>7, <1>8

-----------------------------------------------------------------------------
(* Flash: the dump                                                         *)

\* The places of the units that a dump reads.
LEMMA DumpPlaces ==
    ASSUME Fla!TypeOK
    PROVE  /\ \A b \in Fla!Dumped : b \in Fla!Blocks
           /\ Fla!DumpUpto(0) = 0
           /\ \A b \in 0 .. NBlocks : Fla!DumpUpto(b) \in Nat /\ Fla!DumpUpto(b) <= Fla!UnitsOn(Fla!Dumped)
           /\ \A b \in Fla!Dumped : Fla!DumpUpto(b + 1) = Fla!DumpUpto(b) + BlockUnits
           /\ \A b, c \in 0 .. NBlocks : b <= c => Fla!DumpUpto(b) <= Fla!DumpUpto(c)
           /\ \A b \in Fla!Dumped, c \in 0 .. NBlocks : b < c => Fla!DumpUpto(b) + BlockUnits <= Fla!DumpUpto(c)
<1>1. NBlocks \in Nat /\ BlockUnits \in Nat /\ NBlocks > 0 /\ BlockUnits > 0
  BY FlashSizes
<1>2. Fla!Dumped \in SUBSET Fla!Blocks
  BY DEF Fla!Dumped, Fla!Good
<1>3. \A b : Fla!DumpUpto(b) = Before(Fla!Dumped, b)
  BY DEF Fla!DumpUpto, Before
<1> DEFINE D == Fla!Dumped
<1>4. /\ Before(D, 0) = 0 /\ Before(D, NBlocks) = Fla!UnitsOn(D)
      /\ \A b \in 0 .. NBlocks : Before(D, b) \in Nat
      /\ \A b \in Fla!Blocks : Before(D, b + 1) = IF b \in D THEN Before(D, b) + BlockUnits ELSE Before(D, b)
      /\ \A b, c \in 0 .. NBlocks : b <= c => Before(D, b) <= Before(D, c)
  BY <1>2, UnitsBefore
<1> HIDE DEF D
<1>5. \A b \in D : b \in Fla!Blocks /\ b \in 0 .. NBlocks /\ b + 1 \in 0 .. NBlocks /\ b \in Int
  BY <1>1, <1>2 DEF Fla!Blocks, D
<1>6. \A b \in 0 .. NBlocks : Before(D, b) <= Fla!UnitsOn(D)
  <2>1. NBlocks \in 0 .. NBlocks /\ \A b \in 0 .. NBlocks : b <= NBlocks
    BY <1>1
  <2> QED BY <1>4, <2>1
<1>7. ASSUME NEW b \in D, NEW c \in 0 .. NBlocks, b < c PROVE Before(D, b) + BlockUnits <= Before(D, c)
  <2>1. b + 1 <= c
    BY <1>1, <1>5, <1>7
  <2>2. Before(D, b + 1) = Before(D, b) + BlockUnits
    BY <1>4, <1>5
  <2> QED BY <1>4, <1>5, <2>1, <2>2
<1>8. \A b \in D : Before(D, b + 1) = Before(D, b) + BlockUnits
  BY <1>4, <1>5
<1> QED BY <1>3, <1>4, <1>5, <1>6, <1>7, <1>8 DEF D

\* A block that was read is where it belongs behind the others.
LEMMA DumpRead ==
    ASSUME Fla!TypeOK, Fla!DumpInPlace, tool = "dump", fpc = "dump", frd.buf = <<>>,
           NEW b \in Fla!Blocks, b = Fla!read_block(frd.pos)
    PROVE  /\ Len(fout) + Len(flash[b]) = Fla!DumpUpto(b + 1)
           /\ \A c \in Fla!Dumped, j \in 1 .. BlockUnits :
                 c < b + 1 => (fout \o flash[b])[Fla!DumpUpto(c) + j] = flash[c][j]
<1>1. NBlocks \in Nat /\ NBlocks > 0 /\ BlockUnits \in Nat /\ BlockUnits > 0
  BY FlashSizes
<1>2. frd.pos \in 0 .. NBlocks /\ fout \in Seq(Int) /\ b \in 0 .. NBlocks /\ b # NBlocks
  <2>1. b \in 0 .. NBlocks /\ b # NBlocks
    BY <1>1 DEF Fla!Blocks
  <2>2. fout \in Seq(Int)
    BY DEF Fla!TypeOK
  <2> QED BY <2>1, <2>2, ContextParts
<1>3. /\ b >= frd.pos /\ Fla!Readable(b)
      /\ \A c \in Fla!Blocks : frd.pos <= c /\ c < b => ~Fla!Readable(c) /\ c \notin eccBad
  BY <1>2, BlockRead
<1>4. b \in Fla!Dumped
  BY <1>3 DEF Fla!Dumped, Fla!Good, Fla!Readable
<1>5. ASSUME NEW c \in Fla!Dumped, c < b PROVE c < frd.pos
  <2>1. c \in Fla!Blocks /\ c \notin marked /\ flash[c] # Fla!ZeroBlock
    BY DEF Fla!Dumped, Fla!Good
  <2>2. c \in Int /\ frd.pos \in Int
    BY <1>1, <1>2, <2>1 DEF Fla!Blocks
  <2> SUFFICES ASSUME frd.pos <= c PROVE FALSE
    BY <2>2
  <2> QED BY <1>3, <1>5, <2>1 DEF Fla!Readable
<1>6. Fla!DumpUpto(b) = Fla!DumpUpto(frd.pos)
  <2>1. \A c \in Fla!Dumped : c \in Int
    BY <1>1, DumpPlaces DEF Fla!Blocks
  <2>2. \A c \in Fla!Dumped : c < b <=> c < frd.pos
    <3>1. b \in Int /\ frd.pos \in Int
      BY <1>1, <1>2
    <3> QED BY <1>3, <1>5, <2>1, <3>1
  <2>3. {c \in Fla!Dumped : c < b} = {c \in Fla!Dumped : c < frd.pos}
    BY <2>2
  <2> QED BY <2>3 DEF Fla!DumpUpto
<1>7. Len(fout) = Fla!DumpUpto(frd.pos)
  <2>1. Len(fout) + Len(frd.buf) = Fla!DumpUpto(frd.pos) /\ Len(frd.buf) = 0 /\ Len(fout) \in Nat
    BY <1>2 DEF Fla!DumpInPlace
  <2> QED BY <2>1
<1>8. flash[b] \in Seq(Int) /\ Len(flash[b]) = BlockUnits
  <2>1. flash[b] \in [1 .. BlockUnits -> Int]
    BY DEF Fla!TypeOK, Fla!DeviceOK
  <2> QED BY <1>1, <2>1
<1>9. Fla!DumpUpto(b) \in Nat /\ Fla!DumpUpto(b + 1) = Fla!DumpUpto(b) + BlockUnits
  BY <1>2, <1>4, DumpPlaces
<1>10. ASSUME NEW c \in Fla!Dumped, NEW j \in 1 .. BlockUnits, c < b + 1
       PROVE  (fout \o flash[b])[Fla!DumpUpto(c) + j] = flash[c][j]
  <2> DEFINE i == Fla!DumpUpto(c) + j
             l == Len(fout)
             s == flash[b]
  <2>1. c \in 0 .. NBlocks /\ c \in Int /\ b \in Int
    BY <1>1, <1>2, DumpPlaces DEF Fla!Blocks
  <2>2. Fla!DumpUpto(c) \in Nat /\ l \in Nat
    BY <1>2, <2>1, DumpPlaces
  <2>3. \A k \in 1 .. l + Len(s) : (fout \o s)[k] = IF k <= l THEN fout[k] ELSE s[k - l]
    BY <1>2, <1>8
  <2>4. CASE c = b
    <3>1. i = l + j /\ i \in 1 .. l + Len(s) /\ ~(i <= l) /\ i - l = j
      BY <1>1, <1>6, <1>7, <1>8, <2>2, <2>4
    <3> HIDE DEF i, l, s
    <3>2. (fout \o s)[i] = s[j]
      BY <2>3, <3>1
    <3> QED BY <2>4, <3>2 DEF i, s
  <2>5. CASE c # b
    <3>1. c < frd.pos
      <4>1. c < b
        BY <1>10, <2>1, <2>5
      <4> QED BY <1>5, <4>1
    <3>2. Fla!DumpUpto(c) + BlockUnits <= Fla!DumpUpto(frd.pos)
      BY <1>2, <3>1, DumpPlaces
    <3>3. i \in 1 .. l + Len(s) /\ i <= l
      BY <1>1, <1>7, <1>8, <2>2, <3>2
    <3>4. (fout \o frd.buf)[i] = flash[c][j]
      BY <3>1 DEF Fla!DumpInPlace
    <3>5. fout \o frd.buf = fout
      BY <1>2
    <3> HIDE DEF i, l, s
    <3>6. (fout \o s)[i] = fout[i]
      BY <2>3, <3>3
    <3> QED BY <3>4, <3>5, <3>6 DEF i, s
  <2> QED BY <2>4, <2>5
<1> QED BY <1>6, <1>7, <1>8, <1>9, <1>10

\* At the end of the dump the blocks that were read are all of them, unless
\* reading stopped at a block that has lost bits.
LEMMA DumpEnd ==
    ASSUME Fla!TypeOK, Fla!DumpInPlace, tool = "dump", fpc = "dump", frd.buf = <<>>,
           Fla!read_block(frd.pos) = NBlocks
    PROVE  /\ Len(fout) <= Fla!UnitsOn(Fla!Dumped)
           /\ eccBad = {} => Len(fout) = Fla!UnitsOn(Fla!Dumped)
           /\ \A b \in Fla!Dumped, j \in 1 .. BlockUnits :
                 Fla!DumpUpto(b) + j <= Len(fout) => fout[Fla!DumpUpto(b) + j] = flash[b][j]
<1>1. NBlocks \in Nat /\ NBlocks > 0 /\ BlockUnits \in Nat /\ BlockUnits > 0
  BY FlashSizes
<1>2. frd.pos \in 0 .. NBlocks /\ fout \in Seq(Int) /\ frd.pos \in Int
  BY <1>1, ContextParts DEF Fla!TypeOK
<1>3. Len(fout) = Fla!DumpUpto(frd.pos)
  <2>1. Len(fout) + Len(frd.buf) = Fla!DumpUpto(frd.pos) /\ Len(frd.buf) = 0 /\ Len(fout) \in Nat
    BY <1>2 DEF Fla!DumpInPlace
  <2> QED BY <2>1
<1>4. Len(fout) <= Fla!UnitsOn(Fla!Dumped)
  BY <1>2, <1>3, DumpPlaces
<1>5. ASSUME eccBad = {} PROVE Len(fout) = Fla!UnitsOn(Fla!Dumped)
  <2>1. \A c \in Fla!Blocks : c >= frd.pos => ~Fla!Readable(c)
    BY <1>2, <1>5, BlockRead
  <2>2. ASSUME NEW c \in Fla!Dumped PROVE c < frd.pos
    <3>1. c \in Fla!Blocks /\ c \notin marked \cup eccBad /\ flash[c] # Fla!ZeroBlock
      BY <1>5 DEF Fla!Dumped, Fla!Good
    <3>2. Fla!Readable(c) /\ c \in Int
      BY <1>1, <3>1 DEF Fla!Readable, Fla!Blocks
    <3> QED BY <1>2, <2>1, <3>1, <3>2
  <2>3. {c \in Fla!Dumped : c < frd.pos} = Fla!Dumped
    BY <2>2
  <2> QED BY <1>3, <2>3 DEF Fla!DumpUpto
<1>6. ASSUME NEW b \in Fla!Dumped, NEW j \in 1 .. BlockUnits, Fla!DumpUpto(b) + j <= Len(fout)
      PROVE  fout[Fla!DumpUpto(b) + j] = flash[b][j]
  <2>1. b \in 0 .. NBlocks /\ b \in Int
    BY <1>1, DumpPlaces DEF Fla!Blocks
  <2>2. Fla!DumpUpto(b) \in Nat /\ Fla!DumpUpto(frd.pos) \in Nat
    BY <1>2, <2>1, DumpPlaces
  <2>3. b < frd.pos
    <3>1. frd.pos <= b => Fla!DumpUpto(frd.pos) <= Fla!DumpUpto(b)
      BY <1>2, <2>1, DumpPlaces
    <3>2. ~(frd.pos <= b)
      BY <1>1, <1>3, <1>6, <2>2, <3>1
    <3> QED BY <1>2, <2>1, <3>2
  <2>4. (fout \o frd.buf)[Fla!DumpUpto(b) + j] = flash[b][j]
    BY <2>3 DEF Fla!DumpInPlace
  <2>5. fout \o frd.buf = fout
    BY <1>2
  <2> QED BY <2>4, <2>5
<1> QED BY <1>4, <1>5, <1>6

\* Every step keeps the dump in place, and its report true.
LEMMA FlashDump ==
    ASSUME Fla!TypeOK, Fla!ProgramsOrdered, Fla!DumpInPlace, Fla!Next
    PROVE  Fla!DumpInPlace' /\ Fla!DumpFaithful'
<1>1. CASE tool # "dump"
  <2>1. tool' = tool
    BY DEF Fla!Next, Fla!Scan, Fla!FlashCheck, Fla!FlashMain, Fla!RawMain, Fla!EraseMain, Fla!mtd_write_data,
         Fla!BlockMarked, Fla!BlockErase, Fla!BlockProgram, Fla!BlockGiveUp, Fla!BlockNoSpace,
         Fla!OpenErase, Fla!mtd_erase_blocks, Fla!mtd_read_data, Fla!DumpUnit, Fla!Restart, Fla!Crash
  <2>2. fpc' = "scan" => fout' = <<>>
    <3>1. CASE Fla!BlockProgram
      <4>1. fpc = "program" /\ fpc' \in {"block", fwr.ret}
        BY <3>1 DEF Fla!BlockProgram
      <4>2. fwr.ret \in {"write", "erase", "open_erase"}
        BY <4>1 DEF Fla!ProgramsOrdered, Fla!InBlock
      <4> QED BY <4>1, <4>2
    <3>2. CASE \/ Fla!Scan \/ Fla!FlashCheck \/ Fla!FlashMain \/ Fla!RawMain \/ Fla!EraseMain \/ Fla!mtd_write_data
               \/ Fla!BlockMarked \/ Fla!BlockErase \/ Fla!BlockGiveUp \/ Fla!BlockNoSpace \/ Fla!OpenErase
               \/ Fla!mtd_erase_blocks \/ Fla!mtd_read_data \/ Fla!DumpUnit \/ Fla!Crash \/ Fla!Restart
      BY <3>2 DEF Fla!Scan, Fla!FlashCheck, Fla!FlashMain, Fla!RawMain, Fla!EraseMain, Fla!mtd_write_data,
           Fla!CopyUnit, Fla!BlockMarked, Fla!BlockErase, Fla!BlockGiveUp, Fla!BlockNoSpace, Fla!OpenErase,
           Fla!Exit, Fla!Pad, Fla!WriteBlockOf, Fla!mtd_erase_blocks, Fla!mtd_read_data, Fla!DumpUnit,
           Fla!Crash, Fla!Restart
    <3> QED BY <3>1, <3>2 DEF Fla!Next
  <2> QED BY <1>1, <2>1, <2>2 DEF Fla!DumpInPlace, Fla!DumpFaithful
<1>2. CASE tool = "dump"
  <2>1. fpc \notin {"check", "main", "write", "block", "program", "erase", "open_erase"}
    BY <1>2 DEF Fla!ProgramsOrdered, Fla!Writing, Fla!InBlock
  <2>2. Fla!Scan \/ Fla!mtd_read_data \/ Fla!DumpUnit \/ Fla!Restart \/ Fla!Crash
    BY <2>1 DEF Fla!Next, Fla!FlashCheck, Fla!FlashMain, Fla!RawMain, Fla!EraseMain, Fla!mtd_write_data,
         Fla!BlockMarked, Fla!BlockErase, Fla!BlockProgram, Fla!BlockGiveUp, Fla!BlockNoSpace,
         Fla!OpenErase, Fla!mtd_erase_blocks
  <2>3. flash' = flash /\ marked' = marked /\ eccBad' = eccBad /\ tool' = tool /\ fpc # "end"
    BY <2>1, <2>2 DEF Fla!Scan, Fla!mtd_read_data, Fla!DumpUnit, Fla!Restart, Fla!Crash
  <2>4. fexit # "0"
    BY <2>3 DEF Fla!ProgramsOrdered
  <2>5. /\ Fla!Dumped' = Fla!Dumped /\ Fla!UnitsOn(Fla!Dumped)' = Fla!UnitsOn(Fla!Dumped)
        /\ \A b : Fla!DumpUpto(b)' = Fla!DumpUpto(b)
    BY <2>3 DEF Fla!Dumped, Fla!Good, Fla!Blocks, Fla!ZeroBlock, Fla!Zero, Fla!UnitsOn, Fla!DumpUpto
  <2>6. CASE Fla!Scan
    <3>1. fexit' # "0" /\ fout' = <<>> /\ fpc' # "scan"
      BY <2>4, <2>6 DEF Fla!Scan, Fla!Exit, Fla!DumpInPlace
    <3>2. fpc' = "dump" => frd' = [pos |-> 0, buf |-> <<>>]
      BY <1>2, <2>6 DEF Fla!Scan, Fla!Exit
    <3>3. fpc' = "dump" => Len(fout') + Len(frd'.buf) = Fla!DumpUpto(frd'.pos)
      BY <3>1, <3>2, DumpPlaces
    <3>4. fpc' = "dump" => \A b \in Fla!Dumped : ~(b < frd'.pos)
      BY <3>2, DumpPlaces, FlashSizes DEF Fla!Blocks
    <3>5. Fla!DumpInPlace'
      BY <2>5, <3>1, <3>3, <3>4 DEF Fla!DumpInPlace
    <3> QED BY <3>1, <3>5 DEF Fla!DumpFaithful
  <2>7. CASE Fla!mtd_read_data
    <3>1. fpc = "dump" /\ frd.buf = <<>> /\ fout' = fout
      BY <2>7 DEF Fla!mtd_read_data
    <3> DEFINE b == Fla!read_block(frd.pos)
    <3>2. CASE b = NBlocks
      <4>1. fpc' = "end"
        BY <2>7, <3>2 DEF Fla!mtd_read_data, Fla!Exit
      <4>2. Fla!DumpFaithful'
        BY <1>2, <2>3, <2>5, <3>1, <3>2, DumpEnd DEF Fla!DumpFaithful
      <4> QED BY <4>1, <4>2 DEF Fla!DumpInPlace
    <3>3. CASE b # NBlocks
      <4>1. frd' = [pos |-> b + 1, buf |-> flash[b]] /\ fpc' = fpc /\ fexit' = fexit
        BY <2>7, <3>3 DEF Fla!mtd_read_data
      <4>2. b \in Fla!Blocks
        BY <3>3, BlockRead, ContextParts
      <4> HIDE DEF b
      <4>3. /\ Len(fout) + Len(flash[b]) = Fla!DumpUpto(b + 1)
            /\ \A c \in Fla!Dumped, j \in 1 .. BlockUnits :
                  c < b + 1 => (fout \o flash[b])[Fla!DumpUpto(c) + j] = flash[c][j]
        BY <1>2, <3>1, <4>2, DumpRead DEF b
      <4>4. frd'.pos = b + 1 /\ frd'.buf = flash[b]
        BY <4>1
      <4>5. Fla!DumpInPlace'
        BY <2>3, <2>5, <3>1, <4>1, <4>3, <4>4 DEF Fla!DumpInPlace
      <4> QED BY <2>4, <4>1, <4>5 DEF Fla!DumpFaithful
    <3> QED BY <3>2, <3>3
  <2>8. CASE Fla!DumpUnit
    <3>1. fpc = "dump" /\ frd.buf # <<>> /\ fexit' # "0" /\ fpc' # "scan"
      BY <2>4, <2>8 DEF Fla!DumpUnit, Fla!Exit
    <3>2. CASE fpc' = "end"
      BY <3>1, <3>2 DEF Fla!DumpInPlace, Fla!DumpFaithful
    <3>3. CASE fout' = Append(fout, Head(frd.buf)) /\ frd' = [frd EXCEPT !.buf = Tail(@)]
      <4>1. fout \in Seq(Int) /\ frd.buf \in Seq(Int) /\ frd \in Fla!MtdReadContext
        BY ContextParts DEF Fla!TypeOK
      <4>2. frd'.pos = frd.pos /\ frd'.buf = Tail(frd.buf)
        BY <3>3, <4>1 DEF Fla!MtdReadContext
      <4>3. \A s, t \in Seq(Int) : t # <<>> =>
               Append(s, Head(t)) \o Tail(t) = s \o t /\ Len(Append(s, Head(t))) + Len(Tail(t)) = Len(s) + Len(t)
        OBVIOUS
      <4>4. fout' \o frd'.buf = fout \o frd.buf /\ Len(fout') + Len(frd'.buf) = Len(fout) + Len(frd.buf)
        BY <3>1, <3>3, <4>1, <4>2, <4>3
      <4>5. Fla!DumpInPlace'
        BY <1>2, <2>3, <2>5, <3>1, <4>2, <4>4 DEF Fla!DumpInPlace
      <4> QED BY <3>1, <4>5 DEF Fla!DumpFaithful
    <3> QED BY <2>8, <3>2, <3>3 DEF Fla!DumpUnit, Fla!Exit
  <2>9. CASE Fla!Restart \/ Fla!Crash
    <3>1. fexit' = fexit /\ fpc' # "dump" /\ (fpc' = "scan" => fout' = <<>>)
      BY <2>9 DEF Fla!Restart, Fla!Crash
    <3> QED BY <2>4, <3>1 DEF Fla!DumpInPlace, Fla!DumpFaithful
  <2> QED BY <2>2, <2>6, <2>7, <2>8, <2>9
<1> QED BY <1>1, <1>2

-----------------------------------------------------------------------------
(* Flash: the theorem                                                      *)

FlashInv ==
    /\ Fla!TypeOK /\ Fla!ProgramsOrdered /\ Fla!BadAscending /\ DataKept /\ Fla!HeaderMeansBody
    /\ Fla!OldAtFirst /\ Fla!DumpInPlace
    /\ Fla!FlashedOnSuccess /\ Fla!RawWrittenOnSuccess /\ Fla!DumpFaithful

\* Every program starts with its context closed and nothing written.
LEMMA FlashStart ==
    ASSUME Fla!Init
    PROVE  FlashInv
<1>1. /\ fpc = "scan" /\ phase = "none" /\ fp = 0 /\ fwr = Fla!NoWrite /\ frd = [pos |-> 0, buf |-> <<>>]
      /\ fout = <<>> /\ fexit = "none" /\ hist = {} /\ faults = 0 /\ crashes = 0
      /\ tool \in {"flash", "dump", "erase", "raw"}
  BY DEF Fla!Init
<1>2. NBlocks \in Nat /\ NBlocks > 0 /\ BlockUnits \in Nat /\ BlockUnits > 0
  BY FlashSizes
<1>3. fwr.bad = <<>> /\ fwr.stored = <<>> /\ fwr.n = 0 /\ ~fwr.failed
  BY <1>1 DEF Fla!NoWrite
<1>4. Fla!DeviceOK
  <2>1. marked \in SUBSET Fla!Blocks /\ eccBad \in SUBSET Fla!Blocks
    BY FlashSizes DEF Fla!Init, Fla!Blocks
  <2>2. img \in FlashImages
    BY DEF Fla!Init
  <2>3. img \in Seq(Int) /\ img # <<>> /\ img[1] \notin {0, 255, 254, 200}
    BY <2>2, FlashSizes
  <2>4. Len(img) > 0 /\ Fla!Header = img[1]
    BY <2>3 DEF Fla!Header
  <2>5. flash \in [Fla!Blocks -> [1 .. BlockUnits -> Int]]
    <3>1. Fla!OldBlock \in [1 .. BlockUnits -> Int] /\ Fla!ZeroBlock \in [1 .. BlockUnits -> Int]
      BY DEF Fla!OldBlock, Fla!ZeroBlock, Fla!Zero
    <3>2. \A b \in Fla!Blocks : 100 + b \in Int
      BY <1>2 DEF Fla!Blocks
    <3>3. CASE flash = [b \in Fla!Blocks |-> Fla!OldBlock]
      BY <3>1, <3>3
    <3>4. CASE flash = [b \in Fla!Blocks |-> IF b = NBlocks - 1 THEN Fla!ZeroBlock
                                             ELSE [i \in 1 .. BlockUnits |-> 100 + b]]
      BY <3>1, <3>2, <3>4
    <3> QED BY <3>3, <3>4 DEF Fla!Init
  <2> QED BY <2>1, <2>3, <2>4, <2>5 DEF Fla!DeviceOK, Fla!Zero, Fla!Blank
<1>5. Fla!TypeOK
  <2>1. Fla!ControlOK
    BY <1>1 DEF Fla!ControlOK
  <2>2. <<>> \in Seq(Int) /\ <<>> \in Seq(Fla!Blocks) /\ 0 \in 0 .. NBlocks
    BY <1>2
  <2>3. fwr \in Fla!MtdWriteContext /\ frd \in Fla!MtdReadContext
    BY <1>1, <2>2 DEF Fla!NoWrite, Fla!MtdWriteContext, Fla!MtdReadContext
  <2>4. Len(fwr.stored) <= BlockUnits
    BY <1>2, <1>3
  <2>5. fp \in 0 .. Len(img)
    BY <1>1, <1>4 DEF Fla!DeviceOK
  <2> QED BY <1>1, <1>4, <2>1, <2>2, <2>3, <2>4, <2>5 DEF Fla!TypeOK
<1>6. Fla!ProgramsOrdered
  BY <1>1, <1>3 DEF Fla!ProgramsOrdered, Fla!InBlock, Fla!Writing
<1>7. Fla!BadAscending
  BY <1>3 DEF Fla!BadAscending
<1>8. DataKept
  BY <1>1 DEF DataKept, Fla!DataInPlace, Fla!PassesOrdered, Fla!TailErased, Fla!Writing, Fla!InBlock
<1>9. tool = "flash" => \A b \in Fla!Blocks : flash[b] = Fla!OldBlock
  BY DEF Fla!Init
<1>10. Fla!HeaderMeansBody
  <2>1. Fla!OldBlock[1] = 200
    BY <1>2 DEF Fla!OldBlock
  <2>2. tool = "flash" => \A b \in Fla!Good : flash[b][1] = 200
    BY <1>9, <2>1 DEF Fla!Good
  <2> QED BY <1>4, <2>2 DEF Fla!HeaderMeansBody, Fla!DeviceOK
<1>11. Fla!OldAtFirst
  BY <1>9 DEF Fla!OldAtFirst
<1>12. Fla!DumpInPlace
  BY <1>1 DEF Fla!DumpInPlace
<1>13. Fla!FlashedOnSuccess /\ Fla!RawWrittenOnSuccess /\ Fla!DumpFaithful
  BY <1>1 DEF Fla!FlashedOnSuccess, Fla!RawWrittenOnSuccess, Fla!DumpFaithful
<1> QED BY <1>5, <1>6, <1>7, <1>8, <1>10, <1>11, <1>12, <1>13 DEF FlashInv

\* The steps of the other parts leave the partition alone.
LEMMA FlashAlone ==
    ASSUME FlashInv, UNCHANGED fla
    PROVE  FlashInv'
<1> USE DEF fla
<1>1. Fla!TypeOK'
  <2>1. Fla!DeviceOK'
    BY DEF FlashInv, Fla!TypeOK, Fla!DeviceOK, Fla!Header, Fla!Blocks, Fla!Zero, Fla!Blank
  <2>2. Fla!ControlOK'
    BY DEF FlashInv, Fla!TypeOK, Fla!ControlOK
  <2>3. (fwr \in Fla!MtdWriteContext)' /\ (frd \in Fla!MtdReadContext)'
    BY DEF FlashInv, Fla!TypeOK, Fla!MtdWriteContext, Fla!MtdReadContext, Fla!Blocks
  <2>4. (fp \in 0 .. Len(img))' /\ (Len(fwr.stored) <= BlockUnits)' /\ (fout \in Seq(Int))'
    BY DEF FlashInv, Fla!TypeOK
  <2> QED BY <2>1, <2>2, <2>3, <2>4 DEF Fla!TypeOK
<1>2. Fla!ProgramsOrdered'
  BY DEF FlashInv, Fla!ProgramsOrdered, Fla!InBlock, Fla!Writing, Fla!Copying, Fla!Good, Fla!Blocks, Fla!NoWrite
<1>3. Fla!BadAscending'
  BY DEF FlashInv, Fla!BadAscending, Fla!Aim, Fla!InBlock
<1>4. DataKept'
  <2>1. Fla!Sound' /\ tool \in {"flash", "raw"} /\ Fla!Writing' => Carried(fpc', fwr', fp', phase', flash')
    BY DataNow DEF FlashInv, Fla!Sound, Fla!Writing, Fla!InBlock
  <2> QED BY <2>1, DataThen
<1>5. /\ Fla!Good' = Fla!Good /\ \A b : Fla!Upto(b)' = Fla!Upto(b)
      /\ Fla!UnitsOn(Fla!Good)' = Fla!UnitsOn(Fla!Good)
      /\ Fla!Dumped' = Fla!Dumped /\ \A b : Fla!DumpUpto(b)' = Fla!DumpUpto(b)
      /\ Fla!UnitsOn(Fla!Dumped)' = Fla!UnitsOn(Fla!Dumped)
  BY DEF Fla!Good, Fla!Upto, Fla!UnitsOn, Fla!Dumped, Fla!DumpUpto, Fla!Blocks, Fla!ZeroBlock, Fla!Zero
<1>6. Fla!HeaderMeansBody'
  BY <1>5 DEF FlashInv, Fla!HeaderMeansBody, Fla!Header, Fla!Holds
<1>7. Fla!OldAtFirst'
  BY DEF FlashInv, Fla!OldAtFirst, Fla!Blocks, Fla!OldBlock
<1>8. Fla!DumpInPlace' /\ Fla!DumpFaithful'
  BY <1>5 DEF FlashInv, Fla!DumpInPlace, Fla!DumpFaithful
<1>9. Fla!FlashedOnSuccess' /\ Fla!RawWrittenOnSuccess'
  BY <1>5 DEF FlashInv, Fla!FlashedOnSuccess, Fla!RawWrittenOnSuccess, Fla!Holds, Fla!Zero, Fla!Blank
<1> QED BY <1>1, <1>2, <1>3, <1>4, <1>6, <1>7, <1>8, <1>9 DEF FlashInv

\* For every size of partition and block, every image, every set of factory-bad
\* and failing blocks and every number of errors and power losses: unless a good
\* block was given up, a partition with the new header has the whole body and a
\* success of flash_image before any power loss means that the image is there;
\* so does a success of write_raw_image with nothing logged; a dump is faithful
\* and the bad-block list leads mtd_find_write_start to the right block.
THEOREM FlashStaysRight == Spec => []FlashRight
<1>1. Init => FlashInv
  BY FlashStart DEF Init
<1>2. FlashInv /\ [Next]_vars => FlashInv'
  <2> SUFFICES ASSUME FlashInv, [Next]_vars PROVE FlashInv'
    OBVIOUS
  <2>1. CASE FlashStep
    <3>1. Fla!Next
      BY <2>1 DEF FlashStep
    <3> QED BY <3>1, FlashTypes, FlashControl, BadInOrder, FlashData, FlashHeader, FlashOld, FlashDump, FlashReports
            DEF FlashInv
  <2>2. CASE VolumeStep \/ InstallStep \/ UNCHANGED vars
    <3>1. UNCHANGED fla
      BY <2>2 DEF VolumeStep, InstallStep, vars
    <3> QED BY <3>1, FlashAlone
  <2> QED BY <2>1, <2>2 DEF Next
<1>3. FlashInv => FlashRight
  BY WriteStarts DEF FlashInv, FlashRight
<1> QED BY <1>1, <1>2, <1>3, PTL DEF Spec
============================================================================
