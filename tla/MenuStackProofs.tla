--------------------------- MODULE MenuStackProofs ---------------------------
(***************************************************************************)
(* Theorems about the menu of prompt_and_wait, for menus of every shape,   *)
(* stacks of every depth and screens of every size: what the screen shows  *)
(* is what the stack says, no entry is used that is not there, and going   *)
(* back returns to the entry a submenu was opened through.                 *)
(***************************************************************************)
EXTENDS MenuStack, WellFoundedInduction, TLAPS

-----------------------------------------------------------------------------
(* Entries and menus                                                       *)

\* The argument of a command is of the command's kind.
LEMMA EntryTarget ==
    ASSUME NEW e \in Entry
    PROVE  /\ e.action = "menu" => e.target \in Menus \cup {".."}
           /\ e.action = "scripted_menu" => e.target \in Menus
           /\ e.action = "tag" => e.target \in Tags
  BY DEF Entry

\* create_menu reads a prefix of the file that fits the arrays.
LEMMA LoadedPrefix ==
    ASSUME NEW v \in Seq(Entry)
    PROVE  /\ Loaded(v) \in Seq(Entry)
           /\ Len(Loaded(v)) \in Nat
           /\ Len(Loaded(v)) <= MaxItems
           /\ Len(Loaded(v)) <= Len(v)
           /\ Len(v) <= MaxItems => Len(Loaded(v)) = Len(v)
           /\ Len(v) > MaxItems => Len(Loaded(v)) = MaxItems
           /\ \A i \in 1..Len(Loaded(v)) : i \in 1..Len(v) /\ Loaded(v)[i] = v[i]
  <1> DEFINE n == IF Len(v) <= MaxItems THEN Len(v) ELSE MaxItems
  <1>1. /\ n \in Nat /\ n <= Len(v) /\ n <= MaxItems /\ Len(v) \in Nat
        /\ Len(v) <= MaxItems => n = Len(v)
        /\ Len(v) > MaxItems => n = MaxItems
    BY SizesAssumption
  <1>2. Loaded(v) = SubSeq(v, 1, n)
    BY DEF Loaded
  <1> HIDE DEF n
  <1>3. Len(SubSeq(v, 1, n)) = n /\ SubSeq(v, 1, n) \in Seq(Entry)
    BY <1>1
  <1>4. \A i \in 1..n : SubSeq(v, 1, n)[i] = v[i] /\ i \in 1..Len(v)
    BY <1>1
  <1> QED
    BY <1>1, <1>2, <1>3, <1>4

\* The readable contents of a menu are entries.
LEMMA ReadableType ==
    ASSUME NEW m \in Menus, NEW v \in Readable(m)
    PROVE  v \in Seq(Entry) /\ v # NoFile /\ v \in Versions[m]
  BY MenusAssumption DEF Readable

LEMMA AfterScriptKnown ==
    ASSUME NEW f \in AfterScript
    PROVE  /\ f \in [Menus -> {NoFile} \cup Seq(Entry)]
           /\ \A m \in Menus : f[m] \in Versions[m]
  <1>1. f \in [Menus -> UNION {Versions[m] : m \in Menus}]
    BY DEF AfterScript
  <1>2. \A m \in Menus : f[m] \in Versions[m]
    BY DEF AfterScript
  <1>3. \A m \in Menus : f[m] \in {NoFile} \cup Seq(Entry)
    BY <1>2, MenusAssumption
  <1> QED
    BY <1>1, <1>2, <1>3

\* A menu that can be opened is shown as a version of its file, with the tags
\* that are set.
LEMMA CreateMenuShows ==
    ASSUME NEW name \in Menus, file'[name] \in Versions[name], Opens(name),
           CreateMenu(name)
    PROVE  /\ shownFile' = name
           /\ file'[name] \in Readable(name)
           /\ shown' = Loaded(file'[name])
           /\ marked' = Ticked(Loaded(file'[name]))
  BY DEF CreateMenu, Opens, Readable

LEMMA CreateMenuType ==
    ASSUME TypeOK, NEW name \in Menus, file'[name] \in Versions[name], CreateMenu(name)
    PROVE  /\ shown' \in Seq(Entry) /\ Len(shown') <= MaxItems
           /\ marked' \subseteq 0..(MaxItems - 1)
           /\ shownFile' \in Menus \cup {NULL}
  <1>1. CASE Opens(name)
    <2>1. /\ shownFile' = name
          /\ file'[name] \in Readable(name)
          /\ shown' = Loaded(file'[name])
          /\ marked' = Ticked(Loaded(file'[name]))
      BY <1>1, CreateMenuShows
    <2>2. file'[name] \in Seq(Entry)
      BY <2>1, ReadableType
    <2> DEFINE list == Loaded(file'[name])
    <2>3. list \in Seq(Entry) /\ Len(list) \in Nat /\ Len(list) <= MaxItems
      BY <2>2, LoadedPrefix
    <2> HIDE DEF list
    <2>4. Ticked(list) \subseteq 0..(MaxItems - 1)
      BY <2>3, SizesAssumption DEF Ticked
    <2> QED
      BY <2>1, <2>3, <2>4 DEF list
  <1>2. CASE ~Opens(name)
    BY <1>2 DEF CreateMenu, entries, TypeOK
  <1> QED
    BY <1>1, <1>2

-----------------------------------------------------------------------------
(* The nearest selectable entry                                            *)

\* A set of indices has a least element and a greatest one.
LEMMA LeastIndex ==
    ASSUME NEW S \in SUBSET Nat, S # {}
    PROVE  Min(S) \in S /\ \A y \in S : Min(S) =< y
  <1> DEFINE R == OpToRel(<, Nat)
  <1>1. IsWellFoundedOn(R, Nat)
    BY NatLessThanWellFounded
  <1>2. \E x \in S : \A y \in S : ~(<<y, x>> \in R)
    <2> HIDE DEF R
    <2> QED
      BY <1>1, WFMin
  <1>3. PICK x \in S : \A y \in S : ~(<<y, x>> \in R)
    BY <1>2
  <1>4. ASSUME NEW y \in S PROVE x =< y
    <2>1. ~(y < x)
      BY <1>3 DEF OpToRel
    <2> QED
      BY <2>1
  <1>5. \E z \in S : \A y \in S : z =< y
    BY <1>4
  <1> QED
    BY <1>5 DEF Min

LEMMA GreatestIndex ==
    ASSUME NEW n \in Nat, NEW S \in SUBSET (0..n), S # {}
    PROVE  Max(S) \in S
  <1> DEFINE T == {n - x : x \in S}
  <1>1. \A x \in S : x \in 0..n /\ n - x \in Nat
    OBVIOUS
  <1>2. T \in SUBSET Nat /\ T # {}
    BY <1>1
  <1>3. Min(T) \in T /\ \A y \in T : Min(T) =< y
    BY <1>2, LeastIndex
  <1>4. PICK x \in S : Min(T) = n - x
    BY <1>3
  <1>5. ASSUME NEW y \in S PROVE x >= y
    <2>1. n - y \in T
      OBVIOUS
    <2>2. n - x =< n - y
      BY <2>1, <1>3, <1>4
    <2> QED
      BY <2>2, <1>1
  <1>6. \E z \in S : \A y \in S : z >= y
    BY <1>5
  <1> QED
    BY <1>6 DEF Max

\* HIGHLIGHT_UP and HIGHLIGHT_DOWN arrive at a selectable entry.
LEMMA NearestSelectable ==
    ASSUME TypeOK, Selectable # {}, NEW sel \in {Above(selected), Below(selected)}
    PROVE  sel \in Selectable /\ sel \in 0..(Len(shown) - 1)
  <1>1. Selectable \in SUBSET (0..(Len(shown) - 1)) /\ Len(shown) \in Nat
    BY DEF Selectable, TypeOK
  <1>2. Len(shown) - 1 \in Nat /\ Selectable \in SUBSET Nat
    <2>1. PICK x \in Selectable : x \in 0..(Len(shown) - 1)
      BY <1>1
    <2>2. Len(shown) - 1 \in Nat
      BY <1>1, <2>1
    <2> QED
      BY <1>1, <2>2
  <1>3. ASSUME NEW S \in SUBSET Selectable, S # {} PROVE Max(S) \in S /\ Min(S) \in S
    <2>1. S \in SUBSET Nat /\ S \in SUBSET (0..(Len(shown) - 1))
      BY <1>1, <1>2
    <2>2. Min(S) \in S
      BY <2>1, <1>3, LeastIndex
    <2>3. Max(S) \in S
      BY <2>1, <1>2, <1>3, GreatestIndex
    <2> QED
      BY <2>2, <2>3
  <1>4. Above(selected) \in Selectable
    BY <1>3 DEF Above
  <1>5. Below(selected) \in Selectable
    BY <1>3 DEF Below
  <1> QED
    BY <1>1, <1>4, <1>5

-----------------------------------------------------------------------------
(* What a step does to the menus                                           *)

\* A step that leaves the files, the stack and the entries alone.
Quiet == UNCHANGED <<file, tags, levels, entries>> /\ (pc' = "start" <=> pc = "start")

\* A step that ends with the current menu read again.
Refreshes == Refresh /\ pc # "start" /\ pc' = "loop" /\ UNCHANGED levels

LEMMA Effects ==
    ASSUME [Next]_vars
    PROVE  \/ Quiet \/ Start \/ Refreshes \/ ItemTag \/ ItemBack \/ ItemBackAtMain
           \/ ItemNewMenu \/ ItemNewMenuScripted
  <1>1. CASE StartMenu
    BY <1>1 DEF StartMenu, files, Quiet
  <1>2. CASE Highlight
    BY <1>2 DEF Highlight, files, Quiet
  <1>3. CASE SelectItem
    BY <1>3 DEF SelectItem, files, Quiet
  <1>4. CASE ItemReboot
    BY <1>4 DEF ItemReboot, Chosen, files, Quiet
  <1>5. CASE ItemWipeData
    BY <1>5 DEF ItemWipeData, Chosen, files, Quiet
  <1>6. CASE WipeData
    BY <1>6 DEF WipeData, files, Quiet
  <1>7. CASE ItemWipeCache
    BY <1>7 DEF ItemWipeCache, Chosen, files, Quiet
  <1>8. CASE WipeEnds
    BY <1>8 DEF WipeEnds, files, Quiet
  <1>9. CASE ItemApplySdcard
    BY <1>9 DEF ItemApplySdcard, Chosen, files, Quiet
  <1>10. CASE InstallFromSdcard
    BY <1>10 DEF InstallFromSdcard, files, Quiet, Refreshes
  <1>11. CASE ItemShellScript
    BY <1>11 DEF ItemShellScript, Chosen, Refreshes
  <1>12. CASE ItemConsole
    BY <1>12 DEF ItemConsole, Chosen, files, Quiet, Refreshes
  <1>13. CASE ItemTooDeep
    BY <1>13 DEF ItemTooDeep, Chosen, files, Quiet
  <1>14. CASE ItemError
    BY <1>14 DEF ItemError, Chosen, files, Quiet
  <1>15. ASSUME NEW index \in 0..10, ConfirmWipe(index) PROVE Quiet
    BY <1>15 DEF ConfirmWipe, files, Quiet
  <1>16. ASSUME NEW index \in 0..1, ConfirmUpdate(index) PROVE Quiet
    BY <1>16 DEF ConfirmUpdate, files, Quiet
  <1>17. CASE ToggleDisplay
    BY <1>17 DEF ToggleDisplay, Quiet
  <1>18. CASE Stopped \/ UNCHANGED vars
    BY <1>18 DEF Stopped, vars, files, Quiet
  <1> QED
    BY <1>1, <1>2, <1>3, <1>4, <1>5, <1>6, <1>7, <1>8, <1>9, <1>10, <1>11, <1>12,
       <1>13, <1>14, <1>15, <1>16, <1>17, <1>18 DEF Next, Loop, Commands

\* The invariant of the files, the stack and the entries.
LevelsInv == /\ TypeOK /\ StackWellFormed /\ ShowsTopOfStack /\ TagsShown
             /\ FilesKnown /\ BeforeStart /\ ShownFromFile /\ ParentsKept /\ ChosenThere

\* An entry that opens a submenu belongs to a menu that stays, and so does one
\* with a tag.
LEMMA ShownEntry ==
    ASSUME MenusKept, LevelsInv, pc # "start", NEW i \in 1..Len(shown)
    PROVE  /\ shown[i] \in Entry
           /\ Onward(shown[i]) \/ shown[i].action = "tag" => NoFile \notin Versions[shownFile]
           /\ \A k \in 1..Len(shown) :
                 shown[i].action = "tag" /\ shown[k].action = "tag"
                    /\ shown[i].target = shown[k].target => i = k
  <1>1. shownFile \in Menus
    BY DEF LevelsInv, ShownFromFile
  <1>2. PICK v \in Readable(shownFile) : shown = Loaded(v)
    BY DEF LevelsInv, ShownFromFile
  <1>3. v \in Seq(Entry)
    BY <1>1, <1>2, ReadableType
  <1>4. \A k \in 1..Len(shown) : k \in 1..Len(v) /\ shown[k] = v[k]
    BY <1>2, <1>3, LoadedPrefix
  <1>5. shown[i] \in Entry
    BY <1>3, <1>4
  <1> QED
    BY <1>1, <1>2, <1>4, <1>5 DEF MenusKept

\* create_menu of a menu that can be read establishes what is said of entries.
LEMMA CreatedEntries ==
    ASSUME NEW name \in Menus, file'[name] \in Versions[name], Opens(name),
           CreateMenu(name)
    PROVE  ShownFromFile' /\ TagsShown' /\ shownFile' = name
  <1>1. /\ shownFile' = name
        /\ file'[name] \in Readable(name)
        /\ shown' = Loaded(file'[name])
        /\ marked' = Ticked(Loaded(file'[name]))
    BY CreateMenuShows
  <1>2. ShownFromFile'
    BY <1>1 DEF ShownFromFile, Readable
  <1>3. TagsShown'
    BY <1>1 DEF TagsShown, Ticked
  <1> QED
    BY <1>1, <1>2, <1>3

\* After create_menu for a new top the files are still known ones, and the top
\* is displayed or, when it cannot be read, dropped.
LEMMA PopEffect ==
    ASSUME TypeOK, FilesKnown, NEW stack, NEW scripts, NEW level \in Levels,
           stack[level] \in Menus, CreateOrPop(stack, scripts, level)
    PROVE  /\ FilesKnown' /\ file' \in [Menus -> {NoFile} \cup Seq(Entry)]
           /\ tags' = tags
           /\ shown' \in Seq(Entry) /\ Len(shown') <= MaxItems
           /\ marked' \subseteq 0..(MaxItems - 1)
           /\ shownFile' \in Menus \cup {NULL}
           /\ \/ /\ ShownFromFile' /\ TagsShown' /\ shownFile' = stack[level]
                 /\ menu_files' = stack /\ menu_scripts' = scripts /\ menu_level' = level
              \/ /\ UNCHANGED entries
                 /\ NoFile \in Versions[stack[level]] /\ level = 0
                 /\ menu_files' = stack /\ menu_scripts' = scripts /\ menu_level' = level
              \/ /\ UNCHANGED entries
                 /\ NoFile \in Versions[stack[level]] /\ level > 0
                 /\ menu_files' = [stack EXCEPT ![level] = NULL]
                 /\ menu_scripts' = [scripts EXCEPT ![level] = FALSE]
                 /\ menu_level' = level - 1
  <1> DEFINE name == stack[level]
  <1>1. /\ tags' = tags /\ RunsMenuScript(scripts[level], name) /\ CreateMenu(name)
    BY DEF CreateOrPop
  <1>2. FilesKnown' /\ file' \in [Menus -> {NoFile} \cup Seq(Entry)]
    <2>1. CASE file' = file
      BY <2>1 DEF FilesKnown, TypeOK
    <2>2. ASSUME NEW v \in Versions[name], file' = [file EXCEPT ![name] = v]
          PROVE  FilesKnown' /\ file' \in [Menus -> {NoFile} \cup Seq(Entry)]
      <3>1. v \in {NoFile} \cup Seq(Entry)
        BY MenusAssumption
      <3> QED
        BY <2>2, <3>1 DEF FilesKnown, TypeOK
    <2> QED
      BY <1>1, <2>1, <2>2 DEF RunsMenuScript
  <1>3. file'[name] \in Versions[name]
    BY <1>2 DEF FilesKnown
  <1>4. /\ shown' \in Seq(Entry) /\ Len(shown') <= MaxItems
        /\ marked' \subseteq 0..(MaxItems - 1)
        /\ shownFile' \in Menus \cup {NULL}
    BY <1>1, <1>3, CreateMenuType
  <1>5. CASE Opens(name)
    <2>1. ShownFromFile' /\ TagsShown' /\ shownFile' = name
      BY <1>1, <1>3, <1>5, CreatedEntries
    <2>2. menu_files' = stack /\ menu_scripts' = scripts /\ menu_level' = level
      BY <1>5 DEF CreateOrPop
    <2> QED
      BY <1>1, <1>2, <1>4, <2>1, <2>2
  <1>6. CASE ~Opens(name)
    <2>1. UNCHANGED entries /\ NoFile \in Versions[name]
      BY <1>1, <1>3, <1>6 DEF CreateMenu, Opens
    <2>2. \/ /\ level = 0
             /\ menu_files' = stack /\ menu_scripts' = scripts /\ menu_level' = level
          \/ /\ level > 0
             /\ menu_files' = [stack EXCEPT ![level] = NULL]
             /\ menu_scripts' = [scripts EXCEPT ![level] = FALSE]
             /\ menu_level' = level - 1
      BY <1>6 DEF CreateOrPop
    <2> QED
      BY <1>1, <1>2, <1>4, <2>1, <2>2
  <1> QED
    BY <1>5, <1>6

LEMMA ZeroLevel == 0 \in Levels /\ Levels \subseteq Nat
  BY SizesAssumption DEF Levels

LEMMA StackTop ==
    ASSUME LevelsInv, pc # "start"
    PROVE  /\ menu_files[menu_level] \in Menus
           /\ \A l \in Levels : l <= menu_level => menu_files[l] \in Menus
  <1>1. menu_level \in Levels /\ menu_level <= menu_level
    BY ZeroLevel DEF LevelsInv, TypeOK
  <1>2. \A l \in Levels : l <= menu_level => menu_files[l] # NULL
    BY DEF LevelsInv, StackWellFormed
  <1>3. \A l \in Levels : menu_files[l] \in Menus \cup {NULL}
    BY DEF LevelsInv, TypeOK
  <1> QED
    BY <1>1, <1>2, <1>3

\* What is said of the files, the stack and the entries is preserved; that the
\* variables stay in range is left to StepType.
LEMMA StepLevels ==
    ASSUME MenusKept, LevelsInv, [Next]_vars
    PROVE  /\ StackWellFormed' /\ ShowsTopOfStack' /\ TagsShown' /\ FilesKnown'
           /\ BeforeStart' /\ ShownFromFile' /\ ParentsKept'
  <1> USE ZeroLevel
  <1>l. menu_level \in Levels /\ menu_level \in Nat
    BY DEF LevelsInv, TypeOK
  <1>1. CASE Quiet
    <2>1. /\ (pc' = "start" <=> pc = "start")
          /\ UNCHANGED <<file, tags, menu_files, menu_scripts, menu_level, shown, marked,
                         shownFile>>
      BY <1>1 DEF Quiet, levels, entries
    <2> QED
      BY <2>1 DEF LevelsInv, StackWellFormed, ShowsTopOfStack, TagsShown, FilesKnown,
         BeforeStart, ShownFromFile, ParentsKept
  <1>2. CASE Start
    <2>1. /\ pc = "start" /\ pc' = "loop"
          /\ menu_files' = [menu_files EXCEPT ![0] = Main]
          /\ UNCHANGED <<file, tags, menu_scripts, menu_level>>
          /\ CreateMenu(Main)
      BY <1>2 DEF Start
    <2>2. /\ menu_level = 0
          /\ \A l \in Levels : menu_files[l] = NULL /\ ~menu_scripts[l]
      BY <2>1 DEF LevelsInv, BeforeStart
    <2>3. Main \in Menus /\ Main # NULL
      BY MenusAssumption
    <2>4. \A l \in Levels : menu_files'[l] = IF l = 0 THEN Main ELSE NULL
      BY <2>1, <2>2 DEF LevelsInv, TypeOK
    <2>5. file'[Main] \in Versions[Main] /\ Opens(Main)
      BY <2>1, <2>3 DEF LevelsInv, FilesKnown, MenusKept, Opens
    <2>6. ShownFromFile' /\ TagsShown' /\ shownFile' = Main
      BY <2>1, <2>3, <2>5, CreatedEntries
    <2>7. StackWellFormed'
      BY <2>1, <2>2, <2>3, <2>4 DEF StackWellFormed
    <2>8. ParentsKept'
      BY <2>1, <2>2 DEF ParentsKept
    <2>9. ShowsTopOfStack'
      BY <2>1, <2>2, <2>4, <2>6 DEF ShowsTopOfStack
    <2> QED
      BY <2>1, <2>6, <2>7, <2>8, <2>9 DEF LevelsInv, FilesKnown, BeforeStart
  <1>3. CASE Refreshes
    <2> DEFINE top == menu_files[menu_level]
    <2>1. /\ pc # "start" /\ pc' = "loop" /\ file' \in AfterScript /\ CreateMenu(top)
          /\ UNCHANGED <<menu_files, menu_scripts, menu_level>>
      BY <1>3 DEF Refreshes, Refresh, levels
    <2>2. top \in Menus /\ shownFile = top
      BY <2>1, StackTop DEF LevelsInv, ShowsTopOfStack
    <2>3. FilesKnown'
      BY <2>1, AfterScriptKnown DEF FilesKnown
    <2>4. file'[top] \in Versions[top]
      BY <2>2, <2>3 DEF FilesKnown
    <2>5. StackWellFormed' /\ BeforeStart' /\ ParentsKept'
      BY <2>1 DEF LevelsInv, StackWellFormed, BeforeStart, ParentsKept
    <2>6. CASE Opens(top)
      <3>1. ShownFromFile' /\ TagsShown' /\ shownFile' = top
        BY <2>1, <2>2, <2>4, <2>6, CreatedEntries
      <3> QED
        BY <2>1, <2>3, <2>5, <3>1 DEF ShowsTopOfStack
    <2>7. CASE ~Opens(top)
      <3>1. UNCHANGED <<shown, marked, shownFile>> /\ NoFile \in Versions[shownFile]
        BY <2>1, <2>2, <2>4, <2>7 DEF CreateMenu, Opens, entries
      <3>2. \A i \in 1..Len(shown) : shown[i].action # "tag"
        BY <2>1, <3>1, ShownEntry
      <3>3. Len(shown) \in Nat
        BY DEF LevelsInv, TypeOK
      <3>4. TagsShown'
        BY <3>1, <3>2, <3>3 DEF TagsShown
      <3>5. ShownFromFile'
        BY <2>1, <3>1 DEF LevelsInv, ShownFromFile
      <3> QED
        BY <2>1, <2>2, <2>3, <2>5, <3>1, <3>4, <3>5 DEF ShowsTopOfStack
    <2> QED
      BY <2>6, <2>7
  <1>4. CASE ItemTag
    <2>1. /\ pc = "chosen" /\ pc' = "loop" /\ shown[menu_item + 1].action = "tag"
          /\ UNCHANGED <<file, menu_files, menu_scripts, menu_level, shown, shownFile>>
      BY <1>4 DEF ItemTag, Chosen, levels
    <2>2. /\ StackWellFormed' /\ ShowsTopOfStack' /\ FilesKnown' /\ BeforeStart'
          /\ ShownFromFile' /\ ParentsKept'
      BY <2>1 DEF LevelsInv, StackWellFormed, ShowsTopOfStack, FilesKnown,
         BeforeStart, ShownFromFile, ParentsKept
    <2>3. \/ tags' = tags \cup {Target} /\ marked' = marked \cup {menu_item}
          \/ tags' = tags /\ marked' = marked
          \/ tags' = tags \ {Target} /\ marked' = marked \ {menu_item}
      BY <1>4 DEF ItemTag
    <2>4. Len(shown) \in Nat /\ menu_item \in Nat /\ menu_item < Len(shown)
      BY <2>1 DEF LevelsInv, TypeOK, ChosenThere
    <2>5. TagsShown'
      <3> SUFFICES ASSUME NEW i \in 0..(Len(shown) - 1), shown[i + 1].action = "tag"
                   PROVE  i \in marked' <=> shown[i + 1].target \in tags'
        BY <2>1 DEF TagsShown
      <3>1. i \in marked <=> shown[i + 1].target \in tags
        BY <2>1 DEF LevelsInv, TagsShown
      <3>2. i + 1 \in 1..Len(shown) /\ menu_item + 1 \in 1..Len(shown)
        BY <2>4
      <3>3. shown[i + 1].target = Target => i + 1 = menu_item + 1
        BY <2>1, <3>2, ShownEntry DEF Target
      <3>4. i = menu_item <=> shown[i + 1].target = Target
        BY <2>4, <3>3 DEF Target
      <3> QED
        BY <2>3, <3>1, <3>4
    <2> QED
      BY <2>2, <2>5
  <1>5. CASE ItemBack
    <2> DEFINE level == menu_level - 1
               stack == [menu_files EXCEPT ![menu_level] = NULL]
               scripts == [menu_scripts EXCEPT ![menu_level] = FALSE]
    <2>1. /\ pc = "chosen" /\ pc' = "loop" /\ menu_level > 0
          /\ CreateOrPop(stack, scripts, level)
      BY <1>5 DEF ItemBack, Chosen
    <2>2. level \in Levels /\ level < menu_level /\ level \in Nat
      BY <2>1, <1>l, SizesAssumption DEF Levels
    <2>3. /\ \A l \in Levels : stack[l] = IF l = menu_level THEN NULL ELSE menu_files[l]
          /\ \A l \in Levels : scripts[l] = IF l = menu_level THEN FALSE ELSE menu_scripts[l]
      BY DEF LevelsInv, TypeOK
    <2>4. stack[level] = menu_files[level] /\ menu_files[level] \in Menus
      BY <2>1, <2>2, <2>3, <1>l, StackTop
    <2>5. NoFile \notin Versions[stack[level]]
      BY <2>2, <2>4 DEF LevelsInv, ParentsKept
    <2> HIDE DEF stack, scripts, level
    <2>6. /\ FilesKnown' /\ ShownFromFile' /\ TagsShown' /\ shownFile' = stack[level]
          /\ menu_files' = stack /\ menu_scripts' = scripts /\ menu_level' = level
      BY <2>1, <2>2, <2>4, <2>5, PopEffect DEF LevelsInv
    <2>7. /\ \A l \in Levels : l <= level <=> (l <= menu_level /\ l # menu_level)
          /\ \A l \in Levels : l < level => l < menu_level /\ l # menu_level
          /\ menu_level # 0
      BY <2>1, <2>2, <1>l DEF level
    <2>8. StackWellFormed'
      <3>1. /\ menu_files[0] = Main /\ ~menu_scripts[0]
            /\ \A l \in Levels : (menu_files[l] # NULL) <=> (l <= menu_level)
            /\ \A l \in Levels : menu_scripts[l] => l <= menu_level
        BY <2>1 DEF LevelsInv, StackWellFormed
      <3> QED
        BY <2>3, <2>6, <2>7, <3>1 DEF StackWellFormed
    <2>9. ParentsKept'
      BY <2>3, <2>6, <2>7 DEF LevelsInv, ParentsKept
    <2> QED
      BY <2>1, <2>6, <2>8, <2>9 DEF ShowsTopOfStack, BeforeStart
  <1>6. CASE ItemBackAtMain
    <2>1. /\ pc = "chosen" /\ pc' = "loop" /\ menu_level = 0
          /\ CreateOrPop(menu_files, menu_scripts, 0)
      BY <1>6 DEF ItemBackAtMain, Chosen
    <2>2. menu_files[0] = Main /\ Main \in Menus /\ NoFile \notin Versions[menu_files[0]]
      BY <2>1, MenusAssumption DEF LevelsInv, StackWellFormed, MenusKept
    <2>3. /\ FilesKnown' /\ ShownFromFile' /\ TagsShown' /\ shownFile' = menu_files[0]
          /\ menu_files' = menu_files /\ menu_scripts' = menu_scripts /\ menu_level' = 0
      BY <2>1, <2>2, PopEffect DEF LevelsInv
    <2> QED
      BY <2>1, <2>3
      DEF LevelsInv, StackWellFormed, ShowsTopOfStack, BeforeStart, ParentsKept
  <1>7. ASSUME NEW scripted \in BOOLEAN, pc = "chosen", Onward(shown[menu_item + 1]),
               Push(scripted)
        PROVE  /\ StackWellFormed' /\ ShowsTopOfStack' /\ TagsShown' /\ FilesKnown'
               /\ BeforeStart' /\ ShownFromFile' /\ ParentsKept'
    <2> DEFINE level == menu_level + 1
               stack == [menu_files EXCEPT ![level] = Target]
               scripts == [menu_scripts EXCEPT ![level] = scripted]
    <2>1. menu_level + 1 < MaxLevel /\ CreateOrPop(stack, scripts, level) /\ pc' = "loop"
      BY <1>7 DEF Push
    <2>2. level \in Levels /\ level \in Nat /\ level > 0 /\ level > menu_level
      BY <2>1, <1>l, SizesAssumption DEF Levels
    <2>3. menu_item + 1 \in 1..Len(shown)
      BY <1>7 DEF LevelsInv, TypeOK, ChosenThere
    <2>4. shown[menu_item + 1] \in Entry /\ NoFile \notin Versions[shownFile]
      BY <1>7, <2>3, ShownEntry
    <2>5. Target \in Menus /\ Target # NULL
      BY <1>7, <2>4, EntryTarget, MenusAssumption DEF Onward, Target
    <2>6. shownFile = menu_files[menu_level] /\ shownFile \in Menus
      BY <1>7 DEF LevelsInv, ShowsTopOfStack, ShownFromFile
    <2>7. /\ \A l \in Levels : stack[l] = IF l = level THEN Target ELSE menu_files[l]
          /\ \A l \in Levels : scripts[l] = IF l = level THEN scripted ELSE menu_scripts[l]
          /\ \A l \in Levels : [stack EXCEPT ![level] = NULL][l]
                                  = IF l = level THEN NULL ELSE menu_files[l]
          /\ \A l \in Levels : [scripts EXCEPT ![level] = FALSE][l]
                                  = IF l = level THEN FALSE ELSE menu_scripts[l]
      BY <2>2 DEF LevelsInv, TypeOK
    <2>8. /\ \A l \in Levels : l <= level <=> (l <= menu_level \/ l = level)
          /\ \A l \in Levels : l < level <=> (l < menu_level \/ l = menu_level)
          /\ ~(level <= menu_level) /\ menu_level # level /\ level - 1 = menu_level
          /\ level # 0
          /\ \A l \in Levels : l < menu_level => l # level
      BY <2>2, <1>l
    <2>9. /\ menu_files[0] = Main /\ ~menu_scripts[0]
          /\ \A l \in Levels : (menu_files[l] # NULL) <=> (l <= menu_level)
          /\ \A l \in Levels : menu_scripts[l] => l <= menu_level
      BY <1>7 DEF LevelsInv, StackWellFormed
    <2>10. ParentsKept /\ NoFile \notin Versions[menu_files[menu_level]]
      BY <2>4, <2>6 DEF LevelsInv
    <2>11. /\ FilesKnown'
           /\ \/ /\ ShownFromFile' /\ TagsShown' /\ shownFile' = stack[level]
                 /\ menu_files' = stack /\ menu_scripts' = scripts /\ menu_level' = level
              \/ /\ UNCHANGED entries
                 /\ menu_files' = [stack EXCEPT ![level] = NULL]
                 /\ menu_scripts' = [scripts EXCEPT ![level] = FALSE]
                 /\ menu_level' = level - 1
      <3>1. stack[level] \in Menus
        BY <2>2, <2>5, <2>7
      <3> HIDE DEF stack, scripts, level
      <3> QED
        BY <2>1, <2>2, <2>8, <3>1, PopEffect DEF LevelsInv
    <2>12. CASE /\ ShownFromFile' /\ TagsShown' /\ shownFile' = stack[level]
                /\ menu_files' = stack /\ menu_scripts' = scripts /\ menu_level' = level
      <3> HIDE DEF stack, scripts, level
      <3>1. StackWellFormed'
        BY <2>2, <2>5, <2>7, <2>8, <2>9, <2>12 DEF StackWellFormed
      <3>2. ParentsKept'
        BY <2>7, <2>8, <2>10, <2>12 DEF ParentsKept
      <3> QED
        BY <2>1, <2>11, <2>12, <3>1, <3>2 DEF ShowsTopOfStack, BeforeStart
    <2>13. CASE /\ UNCHANGED entries
                /\ menu_files' = [stack EXCEPT ![level] = NULL]
                /\ menu_scripts' = [scripts EXCEPT ![level] = FALSE]
                /\ menu_level' = level - 1
      <3>1. tags' = tags /\ UNCHANGED <<shown, marked, shownFile>>
        BY <2>1, <2>13 DEF CreateOrPop, entries
      <3> HIDE DEF stack, scripts, level
      <3>2. menu_level' = menu_level
        BY <2>8, <2>13
      <3>3. \A l \in Levels : /\ menu_files'[l] = IF l = level THEN NULL ELSE menu_files[l]
                              /\ menu_scripts'[l] = IF l = level THEN FALSE ELSE menu_scripts[l]
        BY <2>7, <2>13
      <3>4. StackWellFormed'
        BY <2>2, <2>8, <2>9, <3>2, <3>3 DEF StackWellFormed
      <3>5. ParentsKept'
        BY <2>8, <2>10, <3>2, <3>3 DEF ParentsKept
      <3>6. ShowsTopOfStack'
        BY <2>6, <2>8, <3>1, <3>2, <3>3, <1>l DEF ShowsTopOfStack
      <3>7. ShownFromFile' /\ TagsShown'
        BY <1>7, <3>1 DEF LevelsInv, ShownFromFile, TagsShown
      <3> QED
        BY <2>1, <2>11, <3>4, <3>5, <3>6, <3>7 DEF BeforeStart
    <2> QED
      BY <2>11, <2>12, <2>13
  <1>8. CASE ItemNewMenu
    BY <1>7, <1>8 DEF ItemNewMenu, Chosen, Target, Onward
  <1>9. CASE ItemNewMenuScripted
    BY <1>7, <1>9 DEF ItemNewMenuScripted, Chosen, Onward
  <1> QED
    BY <1>1, <1>2, <1>3, <1>4, <1>5, <1>6, <1>8, <1>9, Effects

-----------------------------------------------------------------------------
(* The type invariant                                                      *)

LEMMA OnScreenType ==
    ASSUME TypeOK
    PROVE  /\ OnScreen \in Nat /\ OnScreen <= Len(shown) /\ Len(shown) \in Nat
           /\ shown # <<>> => OnScreen > 0 /\ Len(shown) > 0
  BY SizesAssumption DEF OnScreen, TypeOK

LEMMA ChosenEntry ==
    ASSUME TypeOK, ChosenThere, pc = "chosen"
    PROVE  shown[menu_item + 1] \in Entry /\ menu_item \in 0..(MaxItems - 1)
  <1>1. shown \in Seq(Entry) /\ Len(shown) \in Nat /\ Len(shown) <= MaxItems
    BY DEF TypeOK
  <1>2. menu_item \in Nat /\ menu_item < Len(shown)
    BY DEF TypeOK, ChosenThere
  <1>3. menu_item + 1 \in 1..Len(shown)
    BY <1>1, <1>2
  <1> QED
    BY <1>1, <1>2, <1>3, SizesAssumption

LEMMA InitType == Init => TypeOK
  <1> SUFFICES ASSUME Init PROVE TypeOK
    OBVIOUS
  <1>1. file \in [Menus -> {NoFile} \cup Seq(Entry)]
    BY AfterScriptKnown DEF Init
  <1>2. visible \in BOOLEAN /\ menu_scripts \in [Levels -> BOOLEAN]
    BY DEF Init
  <1>3. shown \in Seq(Entry) /\ Len(shown) <= MaxItems
    BY SizesAssumption DEF Init
  <1> QED
    BY <1>1, <1>2, <1>3, ZeroLevel, SizesAssumption DEF Init, TypeOK, Locations

\* Pushing and popping keep the stack and the entries in range.
LEMMA PopType ==
    ASSUME TypeOK, FilesKnown, NEW level \in Levels,
           NEW stack \in [Levels -> Menus \cup {NULL}], NEW scripts \in [Levels -> BOOLEAN],
           stack[level] \in Menus, CreateOrPop(stack, scripts, level),
           visible' = visible, menu_sel' \in [Levels -> 0..MaxItems],
           override' \in -1..MaxItems, pc' = "loop", UNCHANGED <<cursor, menu_item, assent>>
    PROVE  TypeOK'
  <1>1. /\ file' \in [Menus -> {NoFile} \cup Seq(Entry)] /\ tags' = tags
        /\ shown' \in Seq(Entry) /\ Len(shown') <= MaxItems
        /\ marked' \subseteq 0..(MaxItems - 1)
        /\ shownFile' \in Menus \cup {NULL}
    BY PopEffect
  <1>2. /\ menu_files' \in [Levels -> Menus \cup {NULL}]
        /\ menu_scripts' \in [Levels -> BOOLEAN]
        /\ menu_level' \in Levels
    <2>1. CASE menu_files' = stack /\ menu_scripts' = scripts /\ menu_level' = level
      BY <2>1
    <2>2. CASE /\ level > 0
               /\ menu_files' = [stack EXCEPT ![level] = NULL]
               /\ menu_scripts' = [scripts EXCEPT ![level] = FALSE]
               /\ menu_level' = level - 1
      <3>1. level - 1 \in Levels
        BY <2>2, SizesAssumption DEF Levels
      <3> QED
        BY <2>2, <3>1
    <2> QED
      BY <2>1, <2>2, PopEffect
  <1> QED
    BY <1>1, <1>2 DEF TypeOK, cursor, Locations

\* Reading the current menu again keeps everything in range.
LEMMA RefreshType ==
    ASSUME TypeOK, Refresh, menu_files[menu_level] \in Menus, pc' = "loop",
           UNCHANGED <<visible, levels, cursor, menu_item, assent>>
    PROVE  TypeOK'
  <1> DEFINE top == menu_files[menu_level]
  <1>1. file' \in AfterScript /\ tags' \subseteq Tags /\ CreateMenu(top) /\ override' = menu_item
    BY DEF Refresh
  <1>2. file' \in [Menus -> {NoFile} \cup Seq(Entry)] /\ file'[top] \in Versions[top]
    BY <1>1, AfterScriptKnown
  <1>3. /\ shown' \in Seq(Entry) /\ Len(shown') <= MaxItems
        /\ marked' \subseteq 0..(MaxItems - 1)
        /\ shownFile' \in Menus \cup {NULL}
    BY <1>1, <1>2, CreateMenuType
  <1>4. override' \in -1..MaxItems
    BY <1>1, SizesAssumption DEF TypeOK
  <1> QED
    BY <1>1, <1>2, <1>3, <1>4 DEF TypeOK, levels, cursor, Locations

LEMMA StepType ==
    ASSUME LevelsInv, [Next]_vars PROVE TypeOK'
  <1> USE ZeroLevel, SizesAssumption
  <1>t. TypeOK /\ FilesKnown /\ ChosenThere
    BY DEF LevelsInv
  <1>w. menu_item \in 0..MaxItems /\ menu_item \in -1..MaxItems
    BY <1>t DEF TypeOK
  \* Steps that change no more than where the program is.
  <1>q. ASSUME UNCHANGED <<file, tags, levels, entries>>, visible' \in BOOLEAN,
               selected' \in 0..MaxItems, menu_item_top' \in 0..MaxItems,
               override' \in -1..MaxItems, menu_item' \in 0..MaxItems,
               pc' \in Locations, assent' \in {"none", "Yes", "No", "hidden"}
        PROVE  TypeOK'
    BY <1>q, <1>t DEF TypeOK, levels, entries
  <1>1. CASE Start
    <2>1. /\ menu_files' = [menu_files EXCEPT ![0] = Main] /\ UNCHANGED <<file, tags>>
          /\ CreateMenu(Main) /\ pc' = "loop"
          /\ UNCHANGED <<visible, menu_scripts, menu_sel, menu_level, cursor, override,
                         menu_item, assent>>
      BY <1>1 DEF Start
    <2>2. Main \in Menus /\ file'[Main] \in Versions[Main]
      BY <2>1, <1>t, MenusAssumption DEF FilesKnown
    <2>3. /\ shown' \in Seq(Entry) /\ Len(shown') <= MaxItems
          /\ marked' \subseteq 0..(MaxItems - 1)
          /\ shownFile' \in Menus \cup {NULL}
      BY <2>1, <2>2, <1>t, CreateMenuType
    <2> QED
      BY <2>1, <2>2, <2>3, <1>t DEF TypeOK, cursor, Locations
  <1>2. CASE StartMenu
    <2>1. Len(shown) \in Nat /\ Len(shown) <= MaxItems /\ override \in -1..MaxItems
      BY <1>t DEF TypeOK
    <2>2. OnScreen \in Nat /\ OnScreen <= Len(shown)
      BY <1>t, OnScreenType
    <2>3. selected' = Clamped(override)
      BY <1>2 DEF StartMenu
    <2>4. selected' \in 0..MaxItems /\ (Len(shown) = 0 => selected' = 0)
          /\ (Len(shown) > 0 => selected' < Len(shown))
      BY <2>1, <2>3 DEF Clamped
    <2>5. shown # <<>> => OnScreen > 0
      BY <1>t, OnScreenType
    <2>6. menu_item_top' \in 0..MaxItems
      BY <1>2, <2>1, <2>2, <2>4, <2>5 DEF StartMenu
    <2>7. override' = -1 /\ pc' \in {"undefined", "keys"}
          /\ UNCHANGED <<files, levels, entries, menu_item, assent>>
      BY <1>2 DEF StartMenu
    <2> QED
      BY <2>4, <2>6, <2>7, <1>q, <1>t DEF TypeOK, files, Locations, Broken
  <1>3. CASE Highlight
    <2>1. UNCHANGED <<files, levels, entries, override, menu_item, assent>>
      BY <1>3 DEF Highlight
    <2>2. CASE Selectable = {}
      BY <1>3, <2>1, <2>2, <1>q, <1>t DEF Highlight, TypeOK, files, cursor, Locations, Broken
    <2>3. CASE Selectable # {}
      <3>1. /\ selected' \in {Above(selected), Below(selected)}
            /\ menu_item_top' = Scrolled(selected') /\ pc' = pc
        BY <1>3, <2>3 DEF Highlight
      <3>2. selected' \in 0..(Len(shown) - 1)
        BY <2>3, <3>1, <1>t, NearestSelectable
      <3>3. Len(shown) \in Nat /\ Len(shown) <= MaxItems /\ menu_item_top \in 0..MaxItems
        BY <1>t DEF TypeOK
      <3>4. shown # <<>>
        BY <3>2, <3>3
      <3>5. OnScreen \in Nat /\ OnScreen > 0
        BY <3>4, <1>t, OnScreenType
      <3>6. selected' \in 0..MaxItems
        BY <3>2, <3>3
      <3>7. \/ menu_item_top' = selected'
            \/ menu_item_top' = menu_item_top
            \/ /\ selected' >= menu_item_top + OnScreen
               /\ menu_item_top' = selected' - OnScreen + 1
        BY <3>1 DEF Scrolled
      <3>8. menu_item_top' \in 0..MaxItems
        BY <3>3, <3>5, <3>6, <3>7
      <3> QED
        BY <2>1, <3>1, <3>6, <3>8, <1>q, <1>t DEF TypeOK, files
    <2> QED
      BY <2>2, <2>3
  <1>4. CASE SelectItem
    BY <1>4, <1>q, <1>t DEF SelectItem, TypeOK, files, cursor, Locations, Broken
  <1>5. CASE ItemReboot
    BY <1>5, <1>q, <1>t DEF ItemReboot, TypeOK, files, cursor, Locations
  <1>6. CASE ItemWipeData
    BY <1>6, <1>q, <1>t DEF ItemWipeData, TypeOK, files, cursor, Locations
  <1>7. CASE WipeData
    BY <1>7, <1>q, <1>t DEF WipeData, TypeOK, files, cursor, Locations
  <1>8. CASE ItemWipeCache
    BY <1>8, <1>q, <1>t DEF ItemWipeCache, TypeOK, files, cursor, Locations
  <1>9. CASE WipeEnds
    BY <1>9, <1>q, <1>t DEF WipeEnds, TypeOK, files, cursor, Locations
  <1>10. CASE ItemApplySdcard
    BY <1>10, <1>q, <1>t DEF ItemApplySdcard, TypeOK, files, cursor, Locations
  <1>11. CASE Refreshes /\ UNCHANGED <<visible, cursor, menu_item, assent>>
    <2>1. menu_files[menu_level] \in Menus
      BY <1>11, StackTop DEF Refreshes
    <2> QED
      BY <1>11, <2>1, <1>t, RefreshType DEF Refreshes, levels, cursor
  <1>12. CASE InstallFromSdcard
    <2>1. CASE Refresh /\ pc' = "loop" /\ UNCHANGED visible
      BY <1>11, <1>12, <2>1 DEF InstallFromSdcard, Refreshes, levels, cursor
    <2>2. CASE pc' = "done" /\ UNCHANGED <<files, entries, override>>
      BY <1>12, <2>2, <1>q, <1>t DEF InstallFromSdcard, TypeOK, files, cursor, Locations
    <2> QED
      BY <1>12, <2>1, <2>2 DEF InstallFromSdcard
  <1>13. CASE ItemShellScript
    BY <1>11, <1>13 DEF ItemShellScript, Chosen, Refreshes, levels, cursor
  <1>14. CASE ItemConsole
    <2>1. CASE HaveConsole
      BY <1>11, <1>14, <2>1 DEF ItemConsole, Chosen, Refreshes, levels, cursor
    <2>2. CASE ~HaveConsole
      BY <1>14, <2>2, <1>q, <1>t, <1>w DEF ItemConsole, TypeOK, files, cursor, Locations
    <2> QED
      BY <2>1, <2>2
  <1>15. CASE ItemTag
    <2>1. /\ pc = "chosen" /\ pc' = "loop" /\ shown[menu_item + 1].action = "tag"
          /\ override' = menu_item
          /\ UNCHANGED <<file, visible, levels, shown, shownFile, cursor, menu_item, assent>>
      BY <1>15 DEF ItemTag, Chosen
    <2>2. Target \in Tags /\ menu_item \in 0..(MaxItems - 1)
      BY <2>1, <1>t, ChosenEntry, EntryTarget DEF Target
    <2>3. tags' \subseteq Tags /\ marked' \subseteq 0..(MaxItems - 1)
      BY <1>15, <2>2, <1>t DEF ItemTag, TypeOK
    <2> QED
      BY <2>1, <2>3, <1>t, <1>w DEF TypeOK, levels, cursor, Locations
  <1>16. CASE ItemTooDeep
    BY <1>16, <1>q, <1>t DEF ItemTooDeep, TypeOK, files, cursor, Locations
  <1>17. CASE ItemError
    BY <1>17, <1>q, <1>t DEF ItemError, TypeOK, files, cursor, Locations
  <1>18. CASE ItemBack
    <2> DEFINE level == menu_level - 1
               stack == [menu_files EXCEPT ![menu_level] = NULL]
               scripts == [menu_scripts EXCEPT ![menu_level] = FALSE]
    <2>1. /\ pc = "chosen" /\ pc' = "loop" /\ menu_level > 0
          /\ menu_sel' = [menu_sel EXCEPT ![menu_level] = 0]
          /\ override' = menu_sel[menu_level - 1]
          /\ CreateOrPop(stack, scripts, level)
          /\ UNCHANGED <<visible, cursor, menu_item, assent>>
      BY <1>18 DEF ItemBack, Chosen
    <2>2. menu_level \in Levels /\ level \in Levels /\ level < menu_level /\ level # menu_level
          /\ level <= menu_level
      BY <2>1, <1>t DEF TypeOK, Levels
    <2>3. /\ stack \in [Levels -> Menus \cup {NULL}] /\ scripts \in [Levels -> BOOLEAN]
          /\ menu_sel' \in [Levels -> 0..MaxItems] /\ override' \in -1..MaxItems
      BY <2>1, <2>2, <1>t DEF TypeOK
    <2>4. stack[level] \in Menus
      BY <2>1, <2>2, <1>t, StackTop DEF TypeOK
    <2> HIDE DEF stack, scripts, level
    <2> QED
      BY <2>1, <2>2, <2>3, <2>4, <1>t, PopType
  <1>19. CASE ItemBackAtMain
    <2>1. /\ pc = "chosen" /\ pc' = "loop" /\ menu_level = 0
          /\ CreateOrPop(menu_files, menu_scripts, 0)
          /\ UNCHANGED <<visible, menu_sel, cursor, override, menu_item, assent>>
      BY <1>19 DEF ItemBackAtMain, Chosen
    <2>2. menu_files[0] \in Menus
      BY <2>1, StackTop
    <2> QED
      BY <2>1, <2>2, <1>t, PopType DEF TypeOK
  <1>20. ASSUME NEW scripted \in BOOLEAN, pc = "chosen", Target \in Menus, Push(scripted)
         PROVE  TypeOK'
    <2> DEFINE level == menu_level + 1
               stack == [menu_files EXCEPT ![level] = Target]
               scripts == [menu_scripts EXCEPT ![level] = scripted]
    <2>1. /\ menu_level + 1 < MaxLevel /\ pc' = "loop"
          /\ menu_sel' = [menu_sel EXCEPT ![menu_level] = menu_item]
          /\ CreateOrPop(stack, scripts, level)
          /\ UNCHANGED <<visible, cursor, override, menu_item, assent>>
      BY <1>20 DEF Push
    <2>2. menu_level \in Levels /\ level \in Levels
      BY <2>1, <1>t DEF TypeOK, Levels
    <2>3. /\ stack \in [Levels -> Menus \cup {NULL}] /\ scripts \in [Levels -> BOOLEAN]
          /\ menu_sel' \in [Levels -> 0..MaxItems] /\ override' \in -1..MaxItems
      BY <2>1, <2>2, <1>20, <1>t DEF TypeOK
    <2>4. stack[level] \in Menus
      BY <2>2, <1>20, <1>t DEF TypeOK
    <2> HIDE DEF stack, scripts, level
    <2> QED
      BY <2>1, <2>2, <2>3, <2>4, <1>t, PopType
  <1>21. CASE ItemNewMenu
    <2>1. Target \in Menus
      BY <1>21, <1>t, ChosenEntry, EntryTarget DEF ItemNewMenu, Chosen, Target
    <2> QED
      BY <1>20, <1>21, <2>1 DEF ItemNewMenu, Chosen
  <1>22. CASE ItemNewMenuScripted
    <2>1. Target \in Menus
      BY <1>22, <1>t, ChosenEntry, EntryTarget DEF ItemNewMenuScripted, Chosen, Target
    <2> QED
      BY <1>20, <1>22, <2>1 DEF ItemNewMenuScripted, Chosen
  <1>23. ASSUME NEW index \in 0..10, ConfirmWipe(index) PROVE TypeOK'
    <2>1. assent' \in {"Yes", "No"}
      BY <1>23 DEF ConfirmWipe, WipeAnswers
    <2> QED
      BY <1>23, <2>1, <1>q, <1>t DEF ConfirmWipe, TypeOK, files, cursor, Locations
  <1>24. ASSUME NEW index \in 0..1, ConfirmUpdate(index) PROVE TypeOK'
    <2>1. assent' \in {"Yes", "No"}
      BY <1>24 DEF ConfirmUpdate, UpdateAnswers
    <2>2. override' \in -1..MaxItems
      BY <1>24, <1>t, <1>w DEF ConfirmUpdate, TypeOK
    <2> QED
      BY <1>24, <2>1, <2>2, <1>q, <1>t DEF ConfirmUpdate, TypeOK, files, cursor, Locations
  <1>25. CASE ToggleDisplay
    <2>1. visible' \in BOOLEAN
      BY <1>25 DEF ToggleDisplay
    <2> QED
      BY <1>25, <2>1, <1>q, <1>t DEF ToggleDisplay, TypeOK, cursor
  <1>26. CASE Stopped \/ UNCHANGED vars
    BY <1>26, <1>q, <1>t DEF Stopped, vars, TypeOK, files, cursor
  <1> QED
    BY <1>1, <1>2, <1>3, <1>4, <1>5, <1>6, <1>7, <1>8, <1>9, <1>10, <1>12, <1>13,
       <1>14, <1>15, <1>16, <1>17, <1>18, <1>19, <1>21, <1>22, <1>23, <1>24, <1>25,
       <1>26 DEF Next, Loop, Commands

-----------------------------------------------------------------------------
(* The highlight, the choice and the confirmation                          *)

\* Only get_menu_selection moves the highlight, and it keeps it in the window.
LEMMA StepHighlight ==
    ASSUME TypeOK, HighlightOnScreen, [Next]_vars PROVE HighlightOnScreen'
  <1> SUFFICES ASSUME pc' = "keys", shown' # <<>>
               PROVE  /\ menu_item_top' <= selected'
                      /\ selected' < menu_item_top' + OnScreen'
                      /\ menu_item_top' + OnScreen' <= Len(shown')
    BY DEF HighlightOnScreen
  <1>1. CASE StartMenu
    <2>1. /\ selected' = Clamped(override) /\ shown' = shown
          /\ menu_item_top' = IF selected' >= OnScreen THEN selected' - OnScreen + 1 ELSE 0
      BY <1>1 DEF StartMenu, entries
    <2>2. OnScreen' = OnScreen
      BY <2>1 DEF OnScreen
    <2>3. /\ OnScreen \in Nat /\ OnScreen <= Len(shown) /\ Len(shown) \in Nat
          /\ OnScreen > 0 /\ Len(shown) > 0
      BY <2>1, OnScreenType
    <2>4. override \in -1..MaxItems /\ MaxItems \in Nat
      BY SizesAssumption DEF TypeOK
    <2>5. selected' \in 0..(Len(shown) - 1)
      BY <2>1, <2>3, <2>4 DEF Clamped
    <2> QED
      BY <2>1, <2>2, <2>3, <2>5
  <1>2. CASE Highlight
    <2>1. /\ pc = "keys" /\ shown' = shown /\ Selectable # {}
          /\ selected' \in {Above(selected), Below(selected)}
          /\ menu_item_top' = Scrolled(selected')
      BY <1>2 DEF Highlight, entries
    <2>2. selected' \in 0..(Len(shown) - 1)
      BY <2>1, NearestSelectable
    <2>3. OnScreen' = OnScreen
      BY <2>1 DEF OnScreen
    <2>4. OnScreen \in Nat /\ Len(shown) \in Nat /\ menu_item_top \in Nat /\ OnScreen > 0
      BY <2>1, OnScreenType DEF TypeOK
    <2>5. menu_item_top + OnScreen <= Len(shown)
      BY <2>1 DEF HighlightOnScreen
    <2>6. \/ selected' < menu_item_top /\ menu_item_top' = selected'
          \/ /\ ~(selected' < menu_item_top) /\ ~(selected' >= menu_item_top + OnScreen)
             /\ menu_item_top' = menu_item_top
          \/ /\ selected' >= menu_item_top + OnScreen
             /\ menu_item_top' = selected' - OnScreen + 1
      BY <2>1 DEF Scrolled
    <2> QED
      BY <2>1, <2>2, <2>3, <2>4, <2>5, <2>6
  <1>3. CASE pc = "keys" /\ UNCHANGED <<shown, cursor>>
    <2>1. OnScreen' = OnScreen
      BY <1>3 DEF OnScreen
    <2> QED
      BY <1>3, <2>1 DEF HighlightOnScreen, cursor
  <1>4. CASE ToggleDisplay \/ Stopped \/ UNCHANGED vars
    BY <1>3, <1>4 DEF ToggleDisplay, Stopped, vars, entries
  <1>5. ~(Start \/ SelectItem)
    BY DEF Start, SelectItem
  <1>6. ~Commands
    BY DEF Commands, ItemReboot, ItemWipeData, WipeData, ItemWipeCache, WipeEnds,
       ItemApplySdcard, InstallFromSdcard, ItemShellScript, ItemConsole, ItemTag,
       ItemTooDeep, ItemBack, ItemBackAtMain, ItemNewMenu, ItemNewMenuScripted, Push,
       ItemError, ConfirmWipe, ConfirmUpdate
  <1> QED
    BY <1>1, <1>2, <1>4, <1>5, <1>6 DEF Next, Loop

LEMMA StepChosen ==
    ASSUME ChosenThere, [Next]_vars PROVE ChosenThere'
  <1> SUFFICES ASSUME pc' = "chosen" PROVE menu_item' < Len(shown')
    BY DEF ChosenThere
  <1>1. CASE SelectItem
    BY <1>1 DEF SelectItem, entries
  <1>2. CASE ToggleDisplay \/ Stopped \/ UNCHANGED vars
    BY <1>2 DEF ToggleDisplay, Stopped, vars, entries, ChosenThere
  <1>3. ~(Start \/ StartMenu \/ Highlight)
    BY DEF Start, StartMenu, Highlight
  <1>4. ~Commands
    BY DEF Commands, ItemReboot, ItemWipeData, WipeData, ItemWipeCache, WipeEnds,
       ItemApplySdcard, InstallFromSdcard, ItemShellScript, ItemConsole, ItemTag,
       ItemTooDeep, ItemBack, ItemBackAtMain, ItemNewMenu, ItemNewMenuScripted, Push,
       ItemError, ConfirmWipe, ConfirmUpdate
  <1> QED
    BY <1>1, <1>2, <1>3, <1>4 DEF Next, Loop

\* An entry that is not there is used only in a menu without entries, because
\* the highlight is on the screen and the screen shows entries.
LEMMA StepSelection ==
    ASSUME TypeOK, HighlightOnScreen, SelectionSafe, [Next]_vars PROVE SelectionSafe'
  <1> SUFFICES ASSUME pc' \in Broken
               PROVE  Selectable' = {} \/ Len(shown') = MaxItems
    BY DEF SelectionSafe
  <1>0. Selectable' = {} \/ shown' # shown \/ Selectable # {}
    BY DEF Selectable
  <1>1. CASE StartMenu
    BY <1>1 DEF StartMenu, entries, Broken
  <1>2. CASE Highlight
    BY <1>0, <1>2 DEF Highlight, entries, Broken
  <1>3. CASE SelectItem
    <2>1. pc = "keys" /\ shown' = shown /\ ~(selected < Len(shown))
      BY <1>3 DEF SelectItem, entries, Broken
    <2>2. selected \in Nat /\ menu_item_top \in Nat
      BY DEF TypeOK
    <2>3. OnScreen \in Nat /\ Len(shown) \in Nat
      BY OnScreenType
    <2>4. shown = <<>>
      BY <2>1, <2>2, <2>3 DEF HighlightOnScreen
    <2>5. Selectable = {}
      BY <2>4 DEF Selectable
    <2> QED
      BY <1>0, <2>1, <2>5
  <1>4. CASE ToggleDisplay \/ Stopped \/ UNCHANGED vars
    <2>1. pc' = pc /\ shown' = shown
      BY <1>4 DEF ToggleDisplay, Stopped, vars, entries
    <2> QED
      BY <1>0, <2>1 DEF SelectionSafe
  <1>5. ~Start
    BY DEF Start, Broken
  <1>6. ~Commands
    BY DEF Broken, Commands, ItemReboot, ItemWipeData, WipeData, ItemWipeCache, WipeEnds,
       ItemApplySdcard, InstallFromSdcard, ItemShellScript, ItemConsole, ItemTag,
       ItemTooDeep, ItemBack, ItemBackAtMain, ItemNewMenu, ItemNewMenuScripted, Push,
       ItemError, ConfirmWipe, ConfirmUpdate
  <1> QED
    BY <1>1, <1>2, <1>3, <1>4, <1>5, <1>6 DEF Next, Loop

\* The numbers that wipe_data and the update compare with are those of "Yes".
LEMMA StepAssent ==
    ASSUME ActsOnlyOnYes, [Next]_vars PROVE ActsOnlyOnYes'
  <1>1. CASE pc' \notin {"wipe", "update"}
    BY <1>1 DEF ActsOnlyOnYes
  <1>2. CASE ItemWipeData
    BY <1>2 DEF ItemWipeData, ActsOnlyOnYes
  <1>3. ASSUME NEW index \in 0..10, ConfirmWipe(index) PROVE ActsOnlyOnYes'
    <2>1. /\ pc' = IF WipeAnswered(index) THEN "wipe" ELSE "wiped"
          /\ assent' = WipeAnswers[index + 1]
      BY <1>3 DEF ConfirmWipe
    <2>2. WipeAnswered(index) => assent' = "Yes"
      BY <2>1 DEF WipeAnswered, ItemNumber, WipeAnswers
    <2> QED
      BY <2>1, <2>2 DEF ActsOnlyOnYes
  <1>4. ASSUME NEW index \in 0..1, ConfirmUpdate(index) PROVE ActsOnlyOnYes'
    <2>1. /\ pc' = "update" => ItemNumber(index) = 1
          /\ pc' # "wipe"
          /\ assent' = UpdateAnswers[index + 1]
      BY <1>4 DEF ConfirmUpdate
    <2>2. ItemNumber(index) = 1 => assent' = "Yes"
      BY <2>1 DEF ItemNumber, UpdateAnswers
    <2> QED
      BY <2>1, <2>2 DEF ActsOnlyOnYes
  <1>5. CASE ToggleDisplay \/ Stopped \/ UNCHANGED vars
    BY <1>5 DEF ToggleDisplay, Stopped, vars, ActsOnlyOnYes
  <1>6. CASE Loop \/ ItemReboot \/ WipeData \/ ItemWipeCache \/ WipeEnds \/ ItemApplySdcard
             \/ InstallFromSdcard \/ ItemShellScript \/ ItemConsole \/ ItemTag
             \/ ItemTooDeep \/ ItemBack \/ ItemBackAtMain \/ ItemNewMenu
             \/ ItemNewMenuScripted \/ ItemError
    <2>1. pc' \notin {"wipe", "update"}
      BY <1>6 DEF Loop, Start, StartMenu, Highlight, SelectItem, ItemReboot, WipeData,
         ItemWipeCache, WipeEnds, ItemApplySdcard, InstallFromSdcard, ItemShellScript,
         ItemConsole, ItemTag, ItemTooDeep, ItemBack, ItemBackAtMain, ItemNewMenu,
         ItemNewMenuScripted, Push, ItemError
    <2> QED
      BY <1>1, <2>1
  <1> QED
    BY <1>2, <1>3, <1>4, <1>5, <1>6 DEF Next, Commands

-----------------------------------------------------------------------------
(* The theorems                                                            *)

LEMMA InitMenu == MenusKept /\ Init => MenuInv
  <1> SUFFICES ASSUME MenusKept, Init PROVE MenuInv
    OBVIOUS
  <1>1. TypeOK /\ FilesKnown
    BY InitType, AfterScriptKnown DEF Init, FilesKnown
  <1>2. pc = "start" /\ menu_level = 0 /\ BeforeStart
    BY DEF Init, BeforeStart
  <1>3. ParentsKept
    <2>1. \A l \in Levels : ~(l < menu_level)
      BY <1>2, ZeroLevel
    <2> QED
      BY <2>1 DEF ParentsKept
  <1> QED
    BY <1>1, <1>2, <1>3 DEF MenuInv, MenuTrue, ChoicesSafe, StackWellFormed,
       ShowsTopOfStack, TagsShown, HighlightOnScreen, SelectionSafe, ActsOnlyOnYes,
       ShownFromFile, ChosenThere, Broken

LEMMA StepMenu == MenusKept /\ MenuInv /\ [Next]_vars => MenuInv'
  <1> SUFFICES ASSUME MenusKept, MenuInv, [Next]_vars PROVE MenuInv'
    OBVIOUS
  <1>1. /\ LevelsInv /\ TypeOK /\ HighlightOnScreen /\ ChosenThere /\ SelectionSafe
        /\ ActsOnlyOnYes
    BY DEF MenuInv, MenuTrue, ChoicesSafe, LevelsInv
  <1>2. TypeOK'
    BY <1>1, StepType
  <1>3. /\ StackWellFormed' /\ ShowsTopOfStack' /\ TagsShown' /\ FilesKnown'
        /\ BeforeStart' /\ ShownFromFile' /\ ParentsKept'
    BY <1>1, StepLevels
  <1>4. HighlightOnScreen' /\ ChosenThere' /\ SelectionSafe' /\ ActsOnlyOnYes'
    BY <1>1, StepHighlight, StepChosen, StepSelection, StepAssent
  <1> QED
    BY <1>2, <1>3, <1>4 DEF MenuInv, MenuTrue, ChoicesSafe

\* The inductive invariant holds of every reachable state.
THEOREM Invariance == ASSUME MenusKept PROVE Spec => []MenuInv
  <1>1. Init => MenuInv
    BY InitMenu
  <1>2. MenuInv /\ [Next]_vars => MenuInv'
    BY StepMenu
  <1> QED
    BY <1>1, <1>2, PTL DEF Spec

\* Whatever menus scripts write, as long as none is removed that leads to
\* another, the screen shows the top of the stack, its tags are the ones that
\* are set, and the highlight is in the window (recovery.c, prompt_and_wait).
THEOREM MenuStaysTrue == ASSUME MenusKept PROVE Spec => []MenuTrue
  BY Invariance, PTL DEF MenuInv

\* No entry is used that is not there, however a script shortens a menu, and
\* nothing is wiped or installed without the answer that asks for it.
THEOREM ChoicesStaySafe == ASSUME MenusKept PROVE Spec => []ChoicesSafe
  BY Invariance, PTL DEF MenuInv

\* Where going back leads: the menu below is read, in one of its versions.
LEMMA BackEffect ==
    ASSUME MenusKept, LevelsInv, ItemBack
    PROVE  /\ pc = "chosen" /\ menu_level > 0 /\ menu_level - 1 \in Levels
           /\ menu_level' = menu_level - 1
           /\ menu_sel' = [menu_sel EXCEPT ![menu_level] = 0]
           /\ menu_files' = [menu_files EXCEPT ![menu_level] = NULL]
           /\ override' = menu_sel[menu_level - 1]
           /\ \E v \in Versions[menu_files[menu_level - 1]] : shown' = Loaded(v)
  <1> USE ZeroLevel
  <1> DEFINE level == menu_level - 1
             stack == [menu_files EXCEPT ![menu_level] = NULL]
             scripts == [menu_scripts EXCEPT ![menu_level] = FALSE]
  <1>1. /\ pc = "chosen" /\ pc' = "loop" /\ menu_level > 0
        /\ menu_sel' = [menu_sel EXCEPT ![menu_level] = 0]
        /\ override' = menu_sel[menu_level - 1]
        /\ CreateOrPop(stack, scripts, level)
    BY DEF ItemBack, Chosen
  <1>2. menu_level \in Levels /\ level \in Levels /\ level < menu_level /\ level # menu_level
        /\ level <= menu_level
    BY <1>1, SizesAssumption DEF LevelsInv, TypeOK, Levels
  <1>3. stack[level] = menu_files[level] /\ menu_files[level] \in Menus
    BY <1>1, <1>2, StackTop DEF LevelsInv, TypeOK
  <1>4. NoFile \notin Versions[stack[level]]
    BY <1>2, <1>3 DEF LevelsInv, ParentsKept
  <1> HIDE DEF stack, scripts, level
  <1>5. ShownFromFile' /\ shownFile' = stack[level] /\ menu_files' = stack /\ menu_level' = level
    BY <1>1, <1>2, <1>3, <1>4, PopEffect DEF LevelsInv
  <1>6. \E v \in Versions[menu_files[level]] : shown' = Loaded(v)
    BY <1>1, <1>3, <1>5 DEF ShownFromFile, Readable
  <1> QED
    BY <1>1, <1>2, <1>5, <1>6 DEF stack, level

\* Every version of the menu on the screen has the entry that was chosen, if
\* that opens a submenu.
LEMMA ChosenKept ==
    ASSUME EntriesKept, LevelsInv, pc = "chosen", Onward(shown[menu_item + 1]),
           NEW w \in Versions[shownFile]
    PROVE  /\ w # NoFile
           /\ menu_item < Len(Loaded(w))
           /\ Loaded(w)[menu_item + 1].target = Target
  <1>1. shownFile \in Menus
    BY DEF LevelsInv, ShownFromFile
  <1>2. PICK v \in Readable(shownFile) : shown = Loaded(v)
    BY DEF LevelsInv, ShownFromFile
  <1>3. v \in Seq(Entry)
    BY <1>1, <1>2, ReadableType
  <1>4. /\ menu_item \in Nat /\ menu_item + 1 \in 1..Len(shown) /\ menu_item + 1 <= MaxItems
        /\ MaxItems \in Nat
    BY SizesAssumption DEF LevelsInv, TypeOK, ChosenThere
  <1>5. menu_item + 1 \in 1..Len(v) /\ shown[menu_item + 1] = v[menu_item + 1]
    BY <1>2, <1>3, <1>4, LoadedPrefix
  <1>6. /\ w # NoFile /\ menu_item + 1 <= Len(w)
        /\ w[menu_item + 1].target = v[menu_item + 1].target
    BY <1>1, <1>2, <1>5 DEF EntriesKept
  <1>7. w \in Seq(Entry)
    BY <1>1, <1>6, MenusAssumption
  <1>8. /\ Len(w) \in Nat /\ Len(Loaded(w)) \in Nat
        /\ Len(w) <= MaxItems => Len(Loaded(w)) = Len(w)
        /\ Len(w) > MaxItems => Len(Loaded(w)) = MaxItems
        /\ \A i \in 1..Len(Loaded(w)) : Loaded(w)[i] = w[i]
    BY <1>7, LoadedPrefix
  <1>9. menu_item < Len(Loaded(w)) /\ menu_item + 1 \in 1..Len(Loaded(w))
    BY <1>4, <1>6, <1>8
  <1> QED
    BY <1>5, <1>6, <1>8, <1>9 DEF Target

LEMMA StepLeft ==
    ASSUME MenusKept, EntriesKept, LevelsInv, LeftThrough, [Next]_vars
    PROVE  LeftThrough'
  <1> USE ZeroLevel
  <1>l. menu_level \in Levels /\ menu_level \in Nat
    BY DEF LevelsInv, TypeOK
  \* Levels whose file, entry and successor stay keep what is said of them.
  <1>k. ASSUME NEW l \in Levels, l < menu_level, menu_files'[l] = menu_files[l],
               menu_files'[l + 1] = menu_files[l + 1], menu_sel'[l] = menu_sel[l],
               NEW w \in Versions[menu_files'[l]]
        PROVE  /\ w # NoFile /\ menu_sel'[l] < Len(Loaded(w))
               /\ Loaded(w)[menu_sel'[l] + 1].target = menu_files'[l + 1]
    BY <1>k DEF LeftThrough
  <1>1. CASE UNCHANGED <<menu_files, menu_sel, menu_level>>
    BY <1>1 DEF LeftThrough
  <1>2. CASE menu_level' = 0
    <2>1. \A l \in Levels : ~(l < menu_level')
      BY <1>2
    <2> QED
      BY <2>1 DEF LeftThrough
  <1>3. CASE ItemBack
    <2>1. /\ menu_level' = menu_level - 1
          /\ menu_sel' = [menu_sel EXCEPT ![menu_level] = 0]
          /\ menu_files' = [menu_files EXCEPT ![menu_level] = NULL]
      BY <1>3, BackEffect
    <2> SUFFICES ASSUME NEW l \in Levels, l < menu_level - 1, NEW w \in Versions[menu_files'[l]]
                 PROVE  /\ w # NoFile /\ menu_sel'[l] < Len(Loaded(w))
                        /\ Loaded(w)[menu_sel'[l] + 1].target = menu_files'[l + 1]
      BY <2>1 DEF LeftThrough
    <2>2. l < menu_level /\ l # menu_level /\ l + 1 # menu_level /\ l + 1 \in Levels
      BY <1>l, SizesAssumption DEF Levels
    <2>3. /\ menu_files'[l] = menu_files[l] /\ menu_files'[l + 1] = menu_files[l + 1]
          /\ menu_sel'[l] = menu_sel[l]
      BY <2>1, <2>2 DEF LevelsInv, TypeOK
    <2> QED
      BY <1>k, <2>2, <2>3
  <1>4. ASSUME NEW scripted \in BOOLEAN, pc = "chosen", Onward(shown[menu_item + 1]),
               Push(scripted)
        PROVE  LeftThrough'
    <2> DEFINE level == menu_level + 1
               stack == [menu_files EXCEPT ![level] = Target]
               scripts == [menu_scripts EXCEPT ![level] = scripted]
    <2>1. /\ menu_level + 1 < MaxLevel /\ CreateOrPop(stack, scripts, level)
          /\ menu_sel' = [menu_sel EXCEPT ![menu_level] = menu_item]
      BY <1>4 DEF Push
    <2>2. level \in Levels /\ level \in Nat /\ level > 0 /\ level # menu_level
          /\ level - 1 = menu_level
      BY <2>1, <1>l, SizesAssumption DEF Levels
    <2>3. \/ menu_files' = stack /\ menu_level' = level
          \/ menu_files' = [stack EXCEPT ![level] = NULL] /\ menu_level' = menu_level
      BY <2>1, <2>2 DEF CreateOrPop
    <2>4. /\ \A l \in Levels : l # level => menu_files'[l] = menu_files[l]
          /\ menu_level' = level => menu_files'[level] = Target
          /\ \A l \in Levels : l # menu_level => menu_sel'[l] = menu_sel[l]
          /\ menu_sel'[menu_level] = menu_item
      BY <2>1, <2>2, <2>3, <1>l DEF LevelsInv, TypeOK
    <2> SUFFICES ASSUME NEW l \in Levels, l < menu_level', NEW w \in Versions[menu_files'[l]]
                 PROVE  /\ w # NoFile /\ menu_sel'[l] < Len(Loaded(w))
                        /\ Loaded(w)[menu_sel'[l] + 1].target = menu_files'[l + 1]
      BY DEF LeftThrough
    <2>5. CASE l < menu_level
      <3>1. l # menu_level /\ l # level /\ l + 1 # level /\ l + 1 \in Levels
        BY <2>2, <2>5, <1>l, SizesAssumption DEF Levels
      <3> QED
        BY <1>k, <2>4, <2>5, <3>1
    <2>6. CASE ~(l < menu_level)
      <3>1. menu_level' = level /\ l = menu_level
        BY <2>2, <2>3, <2>6, <1>l
      <3>2. /\ menu_files'[l] = menu_files[menu_level] /\ menu_files'[l + 1] = Target
            /\ menu_sel'[l] = menu_item
        BY <2>2, <2>4, <3>1, <1>l
      <3>3. shownFile = menu_files[menu_level]
        BY <1>4 DEF LevelsInv, ShowsTopOfStack
      <3> QED
        BY <1>4, <3>2, <3>3, ChosenKept
    <2> QED
      BY <2>5, <2>6
  <1>5. CASE Quiet \/ Refreshes \/ ItemTag
    BY <1>1, <1>5 DEF Quiet, Refreshes, ItemTag, levels
  <1>6. CASE Start
    BY <1>2, <1>6 DEF Start, LevelsInv, BeforeStart
  <1>7. CASE ItemBackAtMain
    BY <1>2, <1>7 DEF ItemBackAtMain, CreateOrPop
  <1>8. CASE ItemNewMenu
    BY <1>4, <1>8 DEF ItemNewMenu, Chosen, Target, Onward
  <1>9. CASE ItemNewMenuScripted
    BY <1>4, <1>9 DEF ItemNewMenuScripted, Chosen, Onward
  <1> QED
    BY <1>3, <1>5, <1>6, <1>7, <1>8, <1>9, Effects

\* As long as scripts leave the entries that open submenus in their places,
\* ".." returns to the entry through which the submenu was opened
\* (menu_sel and override_initial_selection of prompt_and_wait).
THEOREM BackReturns == ASSUME MenusKept, EntriesKept PROVE Spec => BackRestores
  <1>1. Init => LeftThrough
    <2> SUFFICES ASSUME Init PROVE LeftThrough
      OBVIOUS
    <2>1. \A l \in Levels : ~(l < menu_level)
      BY ZeroLevel DEF Init
    <2> QED
      BY <2>1 DEF LeftThrough
  <1>2. MenuInv /\ LeftThrough /\ [Next]_vars => LeftThrough'
    BY StepLeft DEF MenuInv, MenuTrue, LevelsInv
  <1>3. ASSUME MenuInv, LeftThrough, ItemBack
        PROVE  /\ override' < Len(shown')
               /\ shown'[override' + 1].target = menu_files[menu_level]
    <2>1. LevelsInv
      BY <1>3 DEF MenuInv, MenuTrue, LevelsInv
    <2>2. /\ menu_level > 0 /\ menu_level - 1 \in Levels
          /\ override' = menu_sel[menu_level - 1]
      BY <1>3, <2>1, BackEffect
    <2>3. PICK v \in Versions[menu_files[menu_level - 1]] : shown' = Loaded(v)
      BY <1>3, <2>1, BackEffect
    <2>4. menu_level - 1 < menu_level /\ (menu_level - 1) + 1 = menu_level
      BY <2>1, ZeroLevel DEF LevelsInv, TypeOK
    <2> QED
      BY <1>3, <2>2, <2>3, <2>4 DEF LeftThrough
  <1>4. MenuInv /\ LeftThrough /\ [Next]_vars =>
            [ItemBack /\ menu_level' = menu_level - 1 =>
                /\ override' < Len(shown')
                /\ shown'[override' + 1].target = menu_files[menu_level]]_vars
    BY <1>3
  <1>5. Spec => []MenuInv
    BY Invariance
  <1> QED
    BY <1>1, <1>2, <1>4, <1>5, PTL DEF Spec, BackRestores
=============================================================================
