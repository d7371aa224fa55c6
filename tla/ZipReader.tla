----------------------------- MODULE ZipReader -----------------------------
(***************************************************************************)
(* minzip: the central directory read into a sorted table (Zip.c,          *)
(* parseZipArchive), the extraction of one directory of the archive        *)
(* (mzExtractRecursive), the helpers that make, sweep and chmod a tree     *)
(* (DirUtil.c) and, at the end, the hash table (Hash.c).  A name is a      *)
(* sequence of characters, ordered as strncmp orders them; what a file     *)
(* holds is "whole" or "torn".                                             *)
(***************************************************************************)
EXTENDS Integers, Sequences, FiniteSets, FiniteSetsExt

CONSTANTS
    Listed,      \* the names an archive can list
    Link,        \* those of them that are symbolic links
    Slash,       \* the code of '/'
    ZipDir,      \* zpath: the directory asked for, with its final slash
    MaxEntries,  \* bound: entries of an archive
    MaxLosses,   \* bound: failing system calls
    Items,       \* bound: the items of the hash table
    HashOf,      \* hash value of each item
    MaxOps       \* bound: operations on the table in a behaviour

VARIABLES
    zpc,     \* "parse", "extract", "data", "done", "sweep", "perm", "end"
    table,   \* pEntries
    at,      \* i, the entry being extracted
    seen,    \* seenMatch
    ok,      \* what mzExtractRecursive will return
    files,   \* FILES_ONLY
    tree,    \* the paths under targetDir and what they are
    mode,    \* the paths dirSetHierarchyPermissions has done
    back,    \* result of the helper of DirUtil.c, "none" before it
    losses,
    slots,   \* pEntries of the hash table: an item, "null" or "tomb"
    live,    \* numEntries
    dead,    \* numDeadEntries
    got,     \* last operation and its result
    added,   \* the items a set would hold
    hops     \* operations so far

zvars == <<zpc, table, at, seen, ok, files, tree, mode, back, losses>>

IsPrefixOf(p, s) == Len(p) <= Len(s) /\ SubSeq(s, 1, Len(p)) = p
IsDirName(n) == n[Len(n)] = Slash

\* strncmp over the shorter length, then the lengths.
Below(s, t) ==
    \/ \E i \in 1 .. Len(s) : /\ i <= Len(t) /\ s[i] < t[i]
                              /\ SubSeq(s, 1, i - 1) = SubSeq(t, 1, i - 1)
    \/ Len(s) < Len(t) /\ IsPrefixOf(s, t)

\* The binary search for the place of a name: the index of an equal entry
\* it happens to meet, or of the last smaller one.
Search_Slip(tab, n) ==
    LET RECURSIVE Halve(_, _)
        Halve(low, high) ==
            IF low > high THEN high
            ELSE LET mid == low + ((high - low) \div 2)
                 IN  CASE Len(tab[mid]) < Len(n) -> Halve(mid + 1, high)
                       [] Len(tab[mid]) > Len(n) -> Halve(low, mid - 1)
                       [] OTHER -> mid
    IN  Halve(1, Len(tab))

Search(tab, n) ==
    LET RECURSIVE Halve(_, _)
        Halve(low, high) ==
            IF low > high THEN high
            ELSE LET mid == low + ((high - low) \div 2)
                 IN  CASE Below(tab[mid], n) -> Halve(mid + 1, high)
                       [] Below(n, tab[mid]) -> Halve(low, mid - 1)
                       [] OTHER -> mid
    IN  Halve(1, Len(tab))

\* One round of the loop of parseZipArchive; memmove makes the room.
ParseEntry ==
    /\ zpc = "parse" /\ Len(table) < MaxEntries
    /\ \E n \in Listed :
          LET target == Search(table, n)
          IN  table' = SubSeq(table, 1, target) \o <<n>>
                          \o SubSeq(table, target + 1, Len(table))
    /\ UNCHANGED <<zpc, at, seen, ok, files, tree, mode, back, losses>>

\* A damaged header: parseZipArchive gives up, the archive is closed again.
ParseFails ==
    /\ zpc = "parse" /\ losses < MaxLosses
    /\ zpc' = "end" /\ table' = <<>> /\ losses' = losses + 1
    /\ UNCHANGED <<at, seen, ok, files, tree, mode, back>>

\* All entries are in place; mzExtractRecursive is called.
Parsed ==
    /\ zpc = "parse" /\ table # <<>>
    /\ zpc' = "extract" /\ at' = 1 /\ files' \in BOOLEAN
    /\ UNCHANGED <<table, seen, ok, tree, mode, back, losses>>

-----------------------------------------------------------------------------
\* targetEntryPath: the part of the name behind zpath, without the slash a
\* directory ends in.
targetEntryPath(n) ==
    LET rest == SubSeq(n, Len(ZipDir) + 1, Len(n))
    IN  IF rest # <<>> /\ IsDirName(rest) THEN SubSeq(rest, 1, Len(rest) - 1) ELSE rest

\* The directories above a path, and the path itself if self is set.
Above(p, self) ==
    {SubSeq(p, 1, i - 1) : i \in {j \in 1 .. Len(p) : p[j] = Slash}}
        \union (IF self /\ p # <<>> THEN {p} ELSE {})

\* getPathDirStatus: a link of the archive points to nothing yet.
Status(t, p) ==
    CASE p \notin DOMAIN t -> "missing"
      [] t[p] = "dir"      -> "dir"
      [] t[p] = "link"     -> "dangling"
      [] OTHER             -> "illegal"

\* dirCreateHierarchy: the directories it makes, in a set of trees by how
\* far it gets; the last is the one of a call that succeeds.
dirCreateHierarchy(t, dirs) ==
    LET missing == {d \in dirs : Status(t, d) = "missing"}
    IN  [d \in DOMAIN t \union missing |-> IF d \in missing THEN "dir" ELSE t[d]]

CanCreate(t, dirs) == \A d \in dirs : Status(t, d) \in {"missing", "dir"}

Matches(n) == IsPrefixOf(ZipDir, n)
Entry == table[at]
Put(t, p, what) == [x \in DOMAIN t \union {p} |-> IF x = p THEN what ELSE t[x]]

Stop(result) == zpc' = "done" /\ ok' = result
GoOn == zpc' = "extract" /\ at' = at + 1

\* An entry that does not begin with zpath: skipped before the first match,
\* the end of the walk behind it, because the table is sorted.
SkipEntry ==
    /\ zpc = "extract" /\ at <= Len(table) /\ ~Matches(Entry)
    /\ IF seen THEN zpc' = "done" /\ UNCHANGED at ELSE GoOn
    /\ UNCHANGED <<table, seen, ok, files, tree, mode, back, losses>>

LastEntry ==
    /\ zpc = "extract" /\ at > Len(table)
    /\ zpc' = "done"
    /\ UNCHANGED <<table, at, seen, ok, files, tree, mode, back, losses>>

\* A directory; with FILES_ONLY it is passed over.
ExtractDir ==
    /\ zpc = "extract" /\ at <= Len(table) /\ Matches(Entry) /\ IsDirName(Entry)
    /\ seen' = TRUE
    /\ LET dirs == Above(targetEntryPath(Entry), TRUE)
       IN  \/ files /\ GoOn /\ UNCHANGED <<ok, tree, losses>>
           \/ /\ ~files /\ CanCreate(tree, dirs)
              /\ tree' = dirCreateHierarchy(tree, dirs) /\ GoOn /\ UNCHANGED <<ok, losses>>
           \/ ~files /\ ~CanCreate(tree, dirs) /\ Stop(FALSE) /\ UNCHANGED <<at, tree, losses>>
           \/ /\ ~files /\ losses < MaxLosses /\ losses' = losses + 1
              /\ Stop(FALSE) /\ UNCHANGED <<at, tree>>
    /\ UNCHANGED <<table, files, mode, back>>

\* Everything up to the opened or linked target of an entry that is not a
\* directory: its directories, the symbolic link (symlink fails when the
\* path is taken), or creat.
ExtractOpen ==
    /\ zpc = "extract" /\ at <= Len(table) /\ Matches(Entry) /\ ~IsDirName(Entry)
    /\ seen' = TRUE
    /\ LET p    == targetEntryPath(Entry)
           dirs == Above(p, FALSE)
           t    == dirCreateHierarchy(tree, dirs)
           link == ~files /\ Entry \in Link
           free == IF link THEN Status(t, p) = "missing" ELSE Status(t, p) # "dir"
       IN  \/ ~CanCreate(tree, dirs) /\ Stop(FALSE) /\ UNCHANGED <<at, tree, losses>>
           \/ CanCreate(tree, dirs) /\ ~free /\ Stop(FALSE) /\ tree' = t /\ UNCHANGED <<at, losses>>
           \/ /\ CanCreate(tree, dirs) /\ free /\ UNCHANGED <<ok, losses>>
              /\ \/ link /\ tree' = Put(t, p, "link") /\ GoOn
                 \/ ~link /\ tree' = Put(t, p, "torn") /\ zpc' = "data" /\ UNCHANGED at
           \/ /\ losses < MaxLosses /\ losses' = losses + 1 /\ CanCreate(tree, dirs)
              /\ tree' = t /\ Stop(FALSE) /\ UNCHANGED at
    /\ UNCHANGED <<table, files, mode, back>>

\* The contents of an entry, stored or deflated, reach the file to their end,
\* or a read, the inflating or a write fails before it.
mzProcessZipEntryContents(complete) == IF complete THEN "whole" ELSE "torn"
mzExtractZipEntryToFile(complete) ==
    Put(tree, targetEntryPath(Entry), mzProcessZipEntryContents(complete))

\* mzExtractZipEntryToFile and utime: a second variable ok, of the inner
\* block, receives their result; the one the function returns keeps its
\* value when the loop is left.
ExtractData_Slip ==
    /\ zpc = "data"
    /\ GoOn /\ UNCHANGED <<ok, losses, tree>>
    /\ UNCHANGED <<table, seen, files, mode, back>>

ExtractData ==
    /\ zpc = "data"
    /\ \/ tree' = mzExtractZipEntryToFile(TRUE) /\ GoOn /\ UNCHANGED <<ok, losses>>
       \/ /\ losses < MaxLosses /\ losses' = losses + 1
          /\ zpc' = "done" /\ UNCHANGED <<at, ok>>
          /\ \E complete \in BOOLEAN : tree' = mzExtractZipEntryToFile(complete)
    /\ UNCHANGED <<table, seen, files, mode, back>>

-----------------------------------------------------------------------------
\* dirUnlinkHierarchy of the target and dirSetHierarchyPermissions over it
\* (lstat: a link is unlinked, and never chmodded through).
Choose ==
    /\ zpc = "done" /\ back = "none"
    /\ zpc' \in {"sweep", "perm", "end"}
    /\ UNCHANGED <<table, at, seen, ok, files, tree, mode, back, losses>>

Under(p) == {x \in DOMAIN tree : x # p /\ IsPrefixOf(p \o <<Slash>>, x)}

\* Children before their directory, in whatever order readdir lists them.
SweepOne ==
    /\ zpc = "sweep"
    /\ \E p \in DOMAIN tree :
          /\ Under(p) = {}
          /\ tree' = [x \in DOMAIN tree \ {p} |-> tree[x]]
    /\ UNCHANGED <<zpc, table, at, seen, ok, files, mode, back, losses>>

\* A failing unlink, rmdir, opendir or readdir.  An error of readdir is not
\* noticed (errno < 0), but then rmdir fails on what is left.
SweepFails ==
    /\ zpc = "sweep" /\ losses < MaxLosses /\ losses' = losses + 1
    /\ zpc' = "end" /\ back' = "failed"
    /\ UNCHANGED <<table, at, seen, ok, files, tree, mode>>

SweepDone_Slip ==
    /\ zpc = "sweep"
    /\ zpc' = "end" /\ back' = "swept"
    /\ UNCHANGED <<table, at, seen, ok, files, tree, mode, losses>>

SweepDone ==
    /\ zpc = "sweep" /\ tree = <<>>
    /\ zpc' = "end" /\ back' = "swept"
    /\ UNCHANGED <<table, at, seen, ok, files, tree, mode, losses>>

\* A directory before its children; the loop ends at the first failure.
PermOne ==
    /\ zpc = "perm"
    /\ \E p \in DOMAIN tree \ mode :
          /\ Above(p, FALSE) \subseteq mode
          /\ mode' = mode \union {p}
    /\ UNCHANGED <<zpc, table, at, seen, ok, files, tree, back, losses>>

PermEnds ==
    /\ zpc = "perm"
    /\ zpc' = "end"
    /\ \/ losses < MaxLosses /\ losses' = losses + 1 /\ back' = "failed"
       \/ mode = DOMAIN tree /\ back' = "set" /\ UNCHANGED losses
    /\ UNCHANGED <<table, at, seen, ok, files, tree, mode>>

Init ==
    /\ zpc = "parse" /\ table = <<>> /\ at = 0 /\ seen = FALSE /\ ok = TRUE /\ files = FALSE
    /\ tree = <<>> /\ mode = {} /\ back = "none" /\ losses = 0

Next ==
    \/ ParseEntry \/ ParseFails \/ Parsed
    \/ SkipEntry \/ LastEntry \/ ExtractDir \/ ExtractOpen \/ ExtractData
    \/ Choose \/ SweepOne \/ SweepFails \/ SweepDone \/ PermOne \/ PermEnds

-----------------------------------------------------------------------------
(***************************************************************************)
(* The hash table (Hash.c): open addressing with linear probing,           *)
(* tombstones for removed items, and doubling when live and dead entries   *)
(* together pass five eighths of the table.                                *)
(***************************************************************************)
hvars == <<slots, live, dead, got, added, hops>>

Size(t) == Len(t)

\* mzHashSize and roundUpPower2, for the sizes that occur.
mzHashSize(n) == (n * 8) \div 5 + 1
roundUpPower2(n) == CHOOSE p \in {1, 2, 4, 8, 16, 32, 64} : p >= n /\ p < 2 * n
mzHashTableCreate(n) == [i \in 1 .. roundUpPower2(n) |-> "null"]

(***************************************************************************)
(* The slot where a probe for hash value h ends: the first one, going      *)
(* round, that is empty or that Accepts takes.  0 when there is none, where *)
(* the code would go round for ever (or, in a table of one slot, past it). *)
(***************************************************************************)
Probe(t, h, Accepts(_)) ==
    LET n     == Size(t)
        At(d) == ((h + d) % n) + 1
        Ends  == {d \in 0 .. n - 1 : t[At(d)] = "null" \/ Accepts(t[At(d)])}
    IN  IF Ends = {} THEN 0 ELSE At(Min(Ends))

Find(t, x) == Probe(t, HashOf[x], LAMBDA y : y = x)

\* Re-insertion into a table of n slots, in the order of the old ones.
resizeHash_Slip(t, n) == [i \in 1 .. n |-> IF i <= Size(t) THEN t[i] ELSE "null"]

resizeHash(t, n) ==
    LET Step[i \in 0 .. Size(t)] ==
            IF i = 0 THEN [j \in 1 .. n |-> "null"]
            ELSE IF t[i] \in {"null", "tomb"} THEN Step[i - 1]
            ELSE [Step[i - 1] EXCEPT
                     ![Probe(Step[i - 1], HashOf[t[i]], LAMBDA y : FALSE)] = t[i]]
    IN  Step[Size(t)]

-----------------------------------------------------------------------------
Op(name, x, r) == hops < MaxOps /\ hops' = hops + 1 /\ got' = [op |-> name, item |-> x, r |-> r]

\* mzHashTableLookup without doAdd.
Lookup(x) ==
    /\ LET slot == Find(slots, x)
       IN  Op("lookup", x, IF slot = 0 THEN "spins" ELSE slots[slot])
    /\ UNCHANGED <<slots, live, dead, added>>

\* The same with doAdd.
Add_Slip(x) ==
    LET slot == Find(slots, x) IN
    /\ slot # 0
    /\ IF slots[slot] # "null" THEN UNCHANGED <<slots, live, dead>>
       ELSE /\ slots' = IF (live + 1) * 8 > Size(slots) * 5
                        THEN resizeHash([slots EXCEPT ![slot] = x], Size(slots) * 2)
                        ELSE [slots EXCEPT ![slot] = x]
            /\ live' = live + 1
            /\ dead' = IF (live + 1) * 8 > Size(slots) * 5 THEN 0 ELSE dead
    /\ Op("add", x, x) /\ added' = added \cup {x}

Add(x) ==
    LET slot == Find(slots, x) IN
    /\ slot # 0
    /\ IF slots[slot] # "null" THEN UNCHANGED <<slots, live, dead>>
       ELSE /\ slots' = IF (live + 1 + dead) * 8 > Size(slots) * 5
                        THEN resizeHash([slots EXCEPT ![slot] = x], Size(slots) * 2)
                        ELSE [slots EXCEPT ![slot] = x]
            /\ live' = live + 1
            /\ dead' = IF (live + 1 + dead) * 8 > Size(slots) * 5 THEN 0 ELSE dead
    /\ Op("add", x, x) /\ added' = added \cup {x}

mzHashTableRemove_Slip(x) ==
    LET slot == Find(slots, x) IN
    /\ IF slot = 0 \/ slots[slot] = "null" THEN UNCHANGED <<slots, live, dead>>
       ELSE slots' = [slots EXCEPT ![slot] = "null"] /\ live' = live - 1 /\ UNCHANGED dead
    /\ Op("remove", x, x) /\ added' = added \ {x}

mzHashTableRemove(x) ==
    LET slot == Find(slots, x) IN
    /\ IF slot = 0 \/ slots[slot] = "null" THEN UNCHANGED <<slots, live, dead>>
       ELSE slots' = [slots EXCEPT ![slot] = "tomb"] /\ live' = live - 1 /\ dead' = dead + 1
    /\ Op("remove", x, x) /\ added' = added \ {x}

mzHashTableClear ==
    /\ slots' = [i \in DOMAIN slots |-> "null"] /\ live' = 0 /\ dead' = 0
    /\ Op("clear", "null", "null") /\ added' = {}

\* mzHashForeach and the iterator visit the live slots.
mzHashForeach ==
    /\ Op("each", "null", "null") /\ UNCHANGED <<slots, live, dead, added>>

Visited == {slots[i] : i \in DOMAIN slots} \ {"null", "tomb"}

HashInit ==
    /\ slots \in {mzHashTableCreate(mzHashSize(n)) : n \in 1 .. 2} /\ live = 0 /\ dead = 0
    /\ got = [op |-> "none", item |-> "null", r |-> "null"] /\ added = {} /\ hops = 0

HashNext ==
    \/ \E x \in Items : Lookup(x) \/ Add(x) \/ mzHashTableRemove(x)
    \/ mzHashTableClear \/ mzHashForeach

-----------------------------------------------------------------------------
\* The table stays sorted whatever order the archive lists its entries in,
\* which is what ending the walk at the first entry behind a match relies on.
TableSorted == \A i \in 1 .. Len(table) - 1 : ~Below(table[i + 1], table[i])

Wanted == {n \in {table[i] : i \in 1 .. Len(table)} : Matches(n) /\ (files => ~IsDirName(n))}
Done(n) ==
    /\ targetEntryPath(n) = <<>> \/ targetEntryPath(n) \in DOMAIN tree
    /\ ~IsDirName(n) => tree[targetEntryPath(n)] \in {"whole", "link"}

\* An extraction none of whose data was lost and that reports success has
\* made every entry below the directory asked for: stopping at the first
\* mismatch behind a match misses none.
ExtractMissesNone ==
    zpc = "done" /\ ok /\ losses = 0 => \A n \in Wanted : Done(n)

\* Only what the entries below that directory name is ever made.
ExtractExact ==
    DOMAIN tree \subseteq
        UNION {Above(targetEntryPath(n), TRUE) : n \in {m \in Listed : Matches(m)}}

\* A sweep that reports success leaves nothing behind, and a permission walk
\* that does has reached every path.
HelpersTell ==
    /\ back = "swept" => tree = <<>>
    /\ back = "set" => mode = DOMAIN tree

\* "Returns true on success, false on failure" (Zip.c:928): success means
\* that every entry below the directory is there and whole.
ExtractTold == zpc = "done" /\ ok => \A n \in Wanted : Done(n)

\* The table is a set: every item added and not removed is found, once, and no
\* other; the counters count; and no probe goes round for ever, since a slot
\* stays empty whatever was added and removed.
TableIsSet ==
    /\ Visited = added
    /\ \A x \in Items : Find(slots, x) # 0 /\ (slots[Find(slots, x)] = x <=> x \in added)
    /\ live = Cardinality(added) /\ live = Cardinality({i \in DOMAIN slots : slots[i] \in Items})
    /\ dead = Cardinality({i \in DOMAIN slots : slots[i] = "tomb"})

=============================================================================
