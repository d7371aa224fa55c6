------------------------------ MODULE Volumes ------------------------------
(***************************************************************************)
(* The roots of the recovery (roots.c) over the table of mounted volumes   *)
(* (mounts.c).  The kernel's table is the truth; the recovery looks at a   *)
(* copy that it reads into a buffer of fixed size, looks up by mount point *)
(* and patches when it unmounts.  Scripts mount and unmount behind it.     *)
(***************************************************************************)
EXTENDS Integers, Sequences, FiniteSets, SequencesExt

CONSTANTS
    BufLines,   \* lines of /proc/mounts that fit into the buffer
    Others,     \* bound: volumes a script mounts elsewhere
    MaxOps      \* bound: operations in a behaviour

VARIABLES
    mounts,     \* /proc/mounts: volumes in the order they were mounted
    copy,       \* g_mounts_state
    broken,     \* devices the kernel does not mount, even to read
    busy,       \* mount points that cannot be unmounted
    package,    \* g_package
    ret,        \* operation, root and return value of the last call
    ops

vvars == <<mounts, copy, broken, busy, package, ret, ops>>

-----------------------------------------------------------------------------
(***************************************************************************)
(* g_roots.  "mtd" stands for g_mtd_device, "raw" and "package" for the    *)
(* two canonical file systems, "none" for NULL.                            *)
(***************************************************************************)
Root(dev, dev2, mp, fs) == [dev |-> dev, dev2 |-> dev2, mp |-> mp, fs |-> fs]

g_roots ==
    [BOOT     |-> Root("mtd:boot", "none", "none", "raw"),
     CACHE    |-> Root("mtd:cache", "none", "/cache", "yaffs2"),
     DATA     |-> Root("mtd:userdata", "none", "/data", "yaffs2"),
     PACKAGE  |-> Root("none", "none", "none", "package"),
     RECOVERY |-> Root("mtd:recovery", "none", "/", "raw"),
     SDCARD   |-> Root("mmcblk0p1", "mmcblk0", "/sdcard", "vfat"),
     TMP      |-> Root("none", "none", "/tmp", "none")]

Names == DOMAIN g_roots \cup {"CDROM"}         \* and one that is no root
Known(r) == r \in DOMAIN g_roots
Mtd(r) == g_roots[r].dev \in {"mtd:boot", "mtd:cache", "mtd:userdata", "mtd:recovery"}
Volume(d, mp) == [dev |-> d, mp |-> mp]
Gone == Volume("none", "none")                 \* an entry unmounted since the scan

\* mounts.c.  A scan reads as much of the table as the buffer holds.
scan_mounted_volumes(m) == SubSeq(m, 1, IF Len(m) < BufLines THEN Len(m) ELSE BufLines)

\* The first entry with that mount point, 0 when there is none.
find_mounted_volume_by_mount_point(c, mp) ==
    SelectInSeq(c, LAMBDA v : v.mp = mp)

\* umount takes away the volume mounted last on the mount point.
Umounted(m, mp) == RemoveAt(m, SelectLastInSeq(m, LAMBDA v : v.mp = mp))

-----------------------------------------------------------------------------
Returns(op, r, v) == ops < MaxOps /\ ops' = ops + 1 /\ ret' = [op |-> op, root |-> r, val |-> v]

(***************************************************************************)
(* A step on the state s = [m, c, ok]: the kernel's table, the copy, and   *)
(* whether every call so far returned 0.                                   *)
(***************************************************************************)
Now == [m |-> mounts, c |-> copy, ok |-> TRUE]

\* mount of a root on its device or on the second one; flash that cannot be
\* written is mounted read-only, which counts as mounted (mtd_mount_partition).
Mountable(r) ==
    LET i == g_roots[r] IN
    IF Mtd(r) THEN i.fs = "yaffs2" /\ i.dev \notin broken
    ELSE i.fs \notin {"none", "raw", "package"}
         /\ (i.dev \notin broken \/ (i.dev2 # "none" /\ i.dev2 \notin broken))

MountDevice(r) ==
    LET i == g_roots[r]
    IN  IF Mtd(r) \/ i.dev \notin broken THEN i.dev ELSE i.dev2

mtd_mount_partition(s, r) ==
    IF Mountable(r)
    THEN [s EXCEPT !.m = Append(@, Volume(MountDevice(r), g_roots[r].mp))]
    ELSE [s EXCEPT !.ok = FALSE]

ensure_mounted_Slip(s, r) ==
    IF ~Known(r) THEN [s EXCEPT !.ok = FALSE]
    ELSE mtd_mount_partition([s EXCEPT !.c = scan_mounted_volumes(s.m)], r)

ensure_mounted(s, r) ==
    IF ~Known(r) THEN [s EXCEPT !.ok = FALSE]
    ELSE LET t == IF g_roots[r].mp = "none" THEN s
                  ELSE [s EXCEPT !.c = scan_mounted_volumes(s.m)]
         IN  IF g_roots[r].mp # "none"
                /\ find_mounted_volume_by_mount_point(t.c, g_roots[r].mp) # 0
             THEN t
             ELSE mtd_mount_partition(t, r)

ensure_unmounted(s, r) ==
    IF ~Known(r) THEN [s EXCEPT !.ok = FALSE]
    ELSE LET mp == g_roots[r].mp
             c  == scan_mounted_volumes(s.m)
             at == find_mounted_volume_by_mount_point(c, mp)
         IN  IF mp = "none" THEN s
             ELSE IF at = 0 THEN [s EXCEPT !.c = c]
             ELSE IF mp \in busy THEN [s EXCEPT !.c = c, !.ok = FALSE]
             ELSE [s EXCEPT !.m = Umounted(s.m, mp), !.c = [c EXCEPT ![at] = Gone]]

-----------------------------------------------------------------------------
ensure_root_path_mounted(r) ==
    LET s == ensure_mounted(Now, r) IN
    /\ mounts' = s.m /\ copy' = s.c /\ Returns("mount", r, s.ok)
    /\ UNCHANGED <<broken, busy, package>>

ensure_root_path_unmounted(r) ==
    LET s == ensure_unmounted(Now, r) IN
    /\ mounts' = s.m /\ copy' = s.c /\ Returns("unmount", r, s.ok)
    /\ UNCHANGED <<broken, busy, package>>

is_root_path_mounted(r) ==
    /\ Known(r) /\ g_roots[r].mp # "none"
    /\ copy' = scan_mounted_volumes(mounts)
    /\ Returns("is mounted", r,
               find_mounted_volume_by_mount_point(copy', g_roots[r].mp) # 0)
    /\ UNCHANGED <<mounts, broken, busy, package>>

(***************************************************************************)
(* format_root_device: unmounts, then erases the partition.  Devices other *)
(* than flash are refused, after the unmount.                              *)
(***************************************************************************)
format_root_device_Slip(r) ==
    LET s == IF Known(r) THEN ensure_unmounted(Now, r) ELSE Now IN
    /\ mounts' = s.m /\ copy' = s.c
    /\ Returns("format", r, Known(r) /\ Mtd(r))
    /\ UNCHANGED <<broken, busy, package>>

format_root_device(r) ==
    LET s == IF Known(r) /\ g_roots[r].dev # "none" /\ g_roots[r].mp # "none"
             THEN ensure_unmounted(Now, r) ELSE Now
    IN
    /\ mounts' = s.m /\ copy' = s.c
    /\ Returns("format", r, Known(r) /\ Mtd(r) /\ s.ok)
    /\ UNCHANGED <<broken, busy, package>>

\* Every root is tried, whatever happened to the ones before.
ensure_common_roots_mounted ==
    LET two == ensure_mounted(ensure_mounted(Now, "SDCARD"), "DATA")
        s   == ensure_mounted(ensure_mounted(two, "CACHE"), "CDROM")
    IN
    /\ mounts' = s.m /\ copy' = s.c /\ Returns("mount all", "all", s.ok)
    /\ UNCHANGED <<broken, busy, package>>

ensure_common_roots_unmounted ==
    LET two == ensure_unmounted(ensure_unmounted(Now, "SDCARD"), "DATA")
        s   == ensure_unmounted(two, "CDROM")
    IN
    /\ mounts' = s.m /\ copy' = s.c /\ Returns("unmount all", "all", s.ok)
    /\ UNCHANGED <<broken, busy, package>>

\* register_package_root, and what translate_package_root_path hands out.
register_package_root(p) ==
    /\ package' = p /\ Returns("register", "PACKAGE", TRUE)
    /\ UNCHANGED <<mounts, copy, broken, busy>>

translate_package_root_path ==
    /\ Returns("translate", "PACKAGE", package # "none")
    /\ UNCHANGED <<mounts, copy, broken, busy, package>>

\* A script mounts a root behind the recovery's back (also over a mounted one,
\* or somewhere else), or unmounts it.
ScriptMount ==
    /\ Returns("script", "any", TRUE)
    /\ \/ \E r \in {"CACHE", "SDCARD"} :
             mounts' = Append(mounts, Volume(g_roots[r].dev, g_roots[r].mp))
       \/ /\ Cardinality({i \in DOMAIN mounts : mounts[i].dev = "other"}) < Others
          /\ mounts' = <<Head(mounts)>> \o <<Volume("other", "/mnt")>> \o Tail(mounts)
       \/ \E r \in {"CACHE", "SDCARD"} :
             /\ find_mounted_volume_by_mount_point(mounts, g_roots[r].mp) # 0
             /\ mounts' = Umounted(mounts, g_roots[r].mp)
    /\ UNCHANGED <<copy, broken, busy, package>>

-----------------------------------------------------------------------------
Init ==
    /\ mounts = <<Volume("rootfs", "/")>> /\ copy = <<>>
    /\ broken \in {{}, {"mmcblk0p1"}, {"mtd:cache"}}
    /\ busy \in {{"/"}, {"/", "/data"}}
    /\ package = "none" /\ ret = [op |-> "none", root |-> "none", val |-> TRUE]
    /\ ops = 0

Next ==
    \/ \E r \in Names : \/ ensure_root_path_mounted(r) \/ ensure_root_path_unmounted(r)
                        \/ is_root_path_mounted(r) \/ format_root_device(r)
    \/ ensure_common_roots_mounted \/ ensure_common_roots_unmounted
    \/ register_package_root("zip") \/ register_package_root("none")
    \/ translate_package_root_path \/ ScriptMount

-----------------------------------------------------------------------------
Stacked == \E i, j \in DOMAIN mounts : i # j /\ mounts[i].mp = mounts[j].mp

\* A step that reports a partition formatted leaves nothing mounted from it: as
\* long as the table fits the buffer and nobody has mounted over a mounted root.
FormatOnlyUnmounted ==
    (ret'.op = "format" /\ ret'.val /\ Len(mounts) <= BufLines /\ ~Stacked) =>
        \A v \in ToSet(mounts') : v.dev # g_roots[ret'.root].dev

\* A root that was reported as mounted is mounted.
MountTold ==
    (ret.op = "mount" /\ ret.val) => \E v \in ToSet(mounts) : v.mp = g_roots[ret.root].mp

\* The recovery never mounts over a mounted root while it can read the whole
\* table (an action: scripts do).
NeverStacks ==
    (ret'.op # "script" /\ ~Stacked /\ Len(mounts') <= BufLines) => ~Stacked'

=============================================================================
