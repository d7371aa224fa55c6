----------------------------- MODULE MenuStack -----------------------------
(***************************************************************************)
(* The menu of Open Recovery: prompt_and_wait of recovery.c with           *)
(* create_menu, delete_menu, get_menu_selection and the scroll window of   *)
(* ui_start_menu and ui_menu_select.                                       *)
(*                                                                         *)
(* A menu is a file that a script may rewrite or remove at any time a      *)
(* script runs.  prompt_and_wait keeps a stack of the files, the scripts   *)
(* that generate them and the entry each was left through; the entries on  *)
(* the screen are a copy that create_menu makes.  The input thread toggles *)
(* the visibility of the screen on its own.                                *)
(*                                                                         *)
(* An entry of a menu is its command and its argument; wording and layout  *)
(* are left out.  Indices count from 0 as in the code: entry i is          *)
(* shown[i + 1].                                                           *)
(***************************************************************************)
EXTENDS Integers, Sequences, FiniteSetsExt

CONSTANTS
    Menus,        \* names of menu files
    Main,         \* MAIN_MENU_FILE
    NoFile,       \* the content of a file that cannot be opened
    Versions,     \* for each file, the contents it may have over time
    Tags,         \* names of tags
    MaxLevel,     \* MAX_MENU_LEVEL (50)
    MaxItems,     \* MAX_MENU_ITEMS (50)
    ScreenItems,  \* entries that fit the screen (MENU_MAX_VISIBLE_ROWS - menu_top)
    HaveConsole,  \* OPEN_RECOVERY_HAVE_CONSOLE
    Faults        \* "tag": creat() in TAGS_PATH may fail

NULL == "NULL"

\* The lines of a menu file that create_menu accepts: command and argument.
Entry == [action : {"menu"}, target : Menus \cup {".."}]
    \cup [action : {"scripted_menu"}, target : Menus]
    \cup [action : {"tag"}, target : Tags]
    \cup [action : {"reboot", "update", "wipe_data", "wipe_cache", "shell", "console",
                    "break", "label", "unknown"}, target : {"*"}]

ASSUME MenusAssumption == /\ Main \in Menus
                          /\ NULL \notin Menus
                          /\ ".." \notin Menus
                          /\ DOMAIN Versions = Menus
                          /\ \A m \in Menus : Versions[m] \subseteq {NoFile} \cup Seq(Entry)
ASSUME SizesAssumption == /\ MaxLevel \in Nat \ {0}
                          /\ MaxItems \in Nat \ {0}
                          /\ ScreenItems \in Nat \ {0}
ASSUME FaultsAssumption == HaveConsole \in BOOLEAN /\ Faults \subseteq {"tag"}

VARIABLES
    file,          \* contents of the menu files
    tags,          \* the tags whose file exists
    visible,       \* ui_text_visible()
    \* --- prompt_and_wait
    menu_files,    \* the stack of menu files, one per level
    menu_scripts,  \* whether the level's menu is generated by a script
    menu_sel,      \* the entry the level was left through
    menu_level,
    override,      \* override_initial_selection
    menu_item,     \* the entry chosen last
    pc,
    \* --- the copy made by create_menu
    shown,         \* MENU_ITEMS, MENU_ITEMS_ACTION, MENU_ITEMS_TARGET
    marked,        \* MENU_ITEMS_TAG: the indices shown with an X
    \* --- get_menu_selection and the screen
    selected,
    menu_item_top, \* first entry on the screen
    \* --- history
    shownFile,     \* the file the entries on the screen were read from
    assent         \* what the last confirmation menu was answered with

files   == <<file, tags, visible>>
levels  == <<menu_files, menu_scripts, menu_sel, menu_level>>
entries == <<shown, marked, shownFile>>
cursor  == <<selected, menu_item_top>>
vars == <<files, levels, entries, cursor, override, menu_item, pc, assent>>

Levels == 0..(MaxLevel - 1)

\* "crashed": a NULL entry is used; "hung": the search for a selectable entry
\* never ends; "undefined": MENU_ITEMS has no terminator.
Broken    == {"crashed", "hung", "undefined"}
Locations == {"start", "loop", "keys", "chosen", "confirm_wipe", "wipe", "wiped",
              "confirm_update", "update", "done"} \cup Broken

TypeOK ==
    /\ file \in [Menus -> {NoFile} \cup Seq(Entry)]
    /\ tags \subseteq Tags
    /\ visible \in BOOLEAN
    /\ menu_files \in [Levels -> Menus \cup {NULL}]
    /\ menu_scripts \in [Levels -> BOOLEAN]
    /\ menu_sel \in [Levels -> 0..MaxItems]
    /\ menu_level \in Levels
    /\ override \in -1..MaxItems
    /\ menu_item \in 0..MaxItems
    /\ pc \in Locations
    /\ shown \in Seq(Entry) /\ Len(shown) <= MaxItems
    /\ marked \subseteq 0..(MaxItems - 1)
    /\ selected \in 0..MaxItems
    /\ menu_item_top \in 0..MaxItems
    /\ shownFile \in Menus \cup {NULL}
    /\ assent \in {"none", "Yes", "No", "hidden"}

\* The contents the files may have after a script has run.
AfterScript == {f \in [Menus -> UNION {Versions[m] : m \in Menus}] :
                   \A m \in Menus : f[m] \in Versions[m]}

Init ==
    /\ file \in AfterScript
    /\ tags = {}
    /\ visible = TRUE
    /\ menu_files = [l \in Levels |-> NULL]
    /\ menu_scripts = [l \in Levels |-> FALSE]
    /\ menu_sel = [l \in Levels |-> 0]
    /\ menu_level = 0
    /\ override = -1
    /\ menu_item = 0
    /\ pc = "start"
    /\ shown = <<>>
    /\ marked = {}
    /\ selected = 0
    /\ menu_item_top = 0
    /\ shownFile = NULL
    /\ assent = "none"

-----------------------------------------------------------------------------
(* create_menu: from a menu file to the entries on the screen              *)

\* At most MAX_MENU_ITEMS entries are read.
Loaded(content) == SubSeq(content, 1, IF Len(content) <= MaxItems THEN Len(content)
                                                                  ELSE MaxItems)

\* The indices of tag entries whose tag file exists.
Ticked(content) == {i \in 0..(Len(content) - 1) :
                       /\ content[i + 1].action = "tag"
                       /\ content[i + 1].target \in tags'}

\* create_menu(name) when the files are as they will be after the step (the
\* menu's script has run).  A file that cannot be opened changes nothing.
Opens(name) == file'[name] # NoFile

CreateMenu(name) ==
    IF Opens(name)
    THEN /\ shown' = Loaded(file'[name])
         /\ marked' = Ticked(Loaded(file'[name]))
         /\ shownFile' = name
    ELSE UNCHANGED entries

\* The script of a scripted menu, given the file as MENU_FILE, rewrites it
\* before create_menu opens it.
RunsMenuScript(scripted, name) ==
    IF scripted THEN \E v \in Versions[name] : file' = [file EXCEPT ![name] = v]
                ELSE UNCHANGED file

-----------------------------------------------------------------------------
(* The selection loop                                                      *)

Start ==
    /\ pc = "start"
    /\ menu_files' = [menu_files EXCEPT ![0] = Main]
    /\ UNCHANGED <<file, tags>>
    /\ CreateMenu(Main)
    /\ pc' = "loop"
    /\ UNCHANGED <<visible, menu_scripts, menu_sel, menu_level, cursor, override,
                   menu_item, assent>>

\* Slips: one of the two corrections of start_sel is missing.
Clamped_NoUpper(sel) == IF sel < 0 THEN 0 ELSE sel
Clamped_NoLower(sel) == IF sel >= Len(shown) THEN Len(shown) - 1 ELSE sel

\* start_sel after the two corrections at the head of get_menu_selection
Clamped(sel) == IF sel >= Len(shown)
                THEN (IF Len(shown) = 0 THEN 0 ELSE Len(shown) - 1)
                ELSE IF sel < 0 THEN 0 ELSE sel

OnScreen == IF Len(shown) < ScreenItems THEN Len(shown) ELSE ScreenItems

\* get_menu_selection up to its loop, with ui_start_menu.  The number of
\* entries is found by looking for the terminating NULL.
StartMenu ==
    /\ pc = "loop"
    /\ selected' = Clamped(override)
    /\ menu_item_top' = IF selected' >= OnScreen THEN selected' - OnScreen + 1 ELSE 0
    /\ override' = -1
    /\ pc' = IF Len(shown) = MaxItems THEN "undefined" ELSE "keys"
    /\ UNCHANGED <<files, levels, entries, menu_item, assent>>

Selectable == {i \in 0..(Len(shown) - 1) :
                  shown[i + 1].action \notin {"break", "label"}}

\* A slip: the window follows one entry too late.
Scrolled_Late(sel) ==
    IF sel < menu_item_top THEN sel
    ELSE IF sel > menu_item_top + OnScreen THEN sel - OnScreen + 1
    ELSE menu_item_top

\* The scroll window after ui_menu_select(sel).
Scrolled(sel) ==
    IF sel < menu_item_top THEN sel
    ELSE IF sel >= menu_item_top + OnScreen THEN sel - OnScreen + 1
    ELSE menu_item_top

\* HIGHLIGHT_UP and HIGHLIGHT_DOWN: the nearest selectable entry in that
\* direction, wrapping around.
Above(sel) == LET c == {i \in Selectable : i < sel}
              IN  IF c # {} THEN Max(c) ELSE Max(Selectable)
Below(sel) == LET c == {i \in Selectable : i > sel}
              IN  IF c # {} THEN Min(c) ELSE Min(Selectable)

Highlight ==
    /\ pc = "keys"
    /\ visible
    /\ \/ /\ Selectable # {}
          /\ selected' \in {Above(selected), Below(selected)}
          /\ menu_item_top' = Scrolled(selected')
          /\ UNCHANGED pc
       \/ /\ Selectable = {}
          /\ pc' = "hung"
          /\ UNCHANGED cursor
    /\ UNCHANGED <<files, levels, entries, override, menu_item, assent>>

\* SELECT_ITEM; select_action compares MENU_ITEMS_ACTION[which].
SelectItem ==
    /\ pc = "keys"
    /\ visible
    /\ menu_item' = selected
    /\ pc' = IF selected < Len(shown) THEN "chosen" ELSE "crashed"
    /\ UNCHANGED <<files, levels, entries, cursor, override, assent>>

\* The input thread: VOLUME UP and the headphone key together.
ToggleDisplay ==
    /\ pc # "done"
    /\ visible' = ~visible
    /\ UNCHANGED <<file, tags, levels, entries, cursor, override, menu_item, pc, assent>>

-----------------------------------------------------------------------------
(* The commands                                                            *)

Chosen(command) == pc = "chosen" /\ shown[menu_item + 1].action = command
Target == shown[menu_item + 1].target

ItemReboot ==
    /\ Chosen("reboot")
    /\ pc' = "done"
    /\ UNCHANGED <<files, levels, entries, cursor, override, menu_item, assent>>

\* wipe_data(ui_text_visible()): without text there is no question.
ItemWipeData ==
    /\ Chosen("wipe_data")
    /\ pc' = IF visible THEN "confirm_wipe" ELSE "wipe"
    /\ assent' = IF visible THEN "none" ELSE "hidden"
    /\ UNCHANGED <<files, levels, entries, cursor, override, menu_item>>

\* A slip: the index itself is returned.
ItemNumber_Index(index) == index

\* What show_interactive_menu returns for the entry with this index.
ItemNumber(index) == index + 1

WipeAnswers   == <<"No", "No", "No", "No", "No", "No", "No", "Yes", "No", "No", "No">>
UpdateAnswers == <<"Yes", "No">>

WipeAnswered(index) == ItemNumber(index) = 8

ConfirmWipe(index) ==
    /\ pc = "confirm_wipe"
    /\ visible
    /\ assent' = WipeAnswers[index + 1]
    /\ pc' = IF WipeAnswered(index) THEN "wipe" ELSE "wiped"
    /\ UNCHANGED <<files, levels, entries, cursor, override, menu_item>>

WipeData ==
    /\ pc = "wipe"
    /\ pc' = "wiped"
    /\ UNCHANGED <<files, levels, entries, cursor, override, menu_item, assent>>

ItemWipeCache ==
    /\ Chosen("wipe_cache")
    /\ pc' = "wiped"
    /\ UNCHANGED <<files, levels, entries, cursor, override, menu_item, assent>>

\* "if (!ui_text_visible()) return" after both wipes
WipeEnds ==
    /\ pc = "wiped"
    /\ pc' = IF visible THEN "loop" ELSE "done"
    /\ UNCHANGED <<files, levels, entries, cursor, override, menu_item, assent>>

ItemApplySdcard ==
    /\ Chosen("update")
    /\ pc' = "confirm_update"
    /\ assent' = "none"
    /\ UNCHANGED <<files, levels, entries, cursor, override, menu_item>>

ConfirmUpdate(index) ==
    /\ pc = "confirm_update"
    /\ visible
    /\ assent' = UpdateAnswers[index + 1]
    /\ \/ /\ ItemNumber(index) = 1
          /\ pc' = "update"
          /\ UNCHANGED override
       \/ /\ ItemNumber(index) # 1
          /\ pc' = "loop"
          /\ override' = menu_item
    /\ UNCHANGED <<files, levels, entries, cursor, menu_item>>

\* After something that may have rewritten any menu file, the current menu is
\* read again and the highlight stays at the entry just used.
Refresh ==
    /\ file' \in AfterScript
    /\ tags' \in SUBSET Tags
    /\ CreateMenu(menu_files[menu_level])
    /\ override' = menu_item

\* The package is installed, or not; a successful install with the text
\* hidden leaves the menu at once.
InstallFromSdcard ==
    /\ pc = "update"
    /\ \/ /\ Refresh
          /\ pc' = "loop"
          /\ UNCHANGED visible
       \/ /\ ~visible
          /\ pc' = "done"
          /\ UNCHANGED <<files, entries, override>>
    /\ UNCHANGED <<levels, cursor, menu_item, assent>>

\* A slip: the menu is not read again after the script.
ItemShellScript_NoRefresh ==
    /\ Chosen("shell")
    /\ file' \in AfterScript
    /\ tags' \in SUBSET Tags
    /\ override' = menu_item
    /\ pc' = "loop"
    /\ UNCHANGED <<visible, levels, entries, cursor, menu_item, assent>>

ItemShellScript ==
    /\ Chosen("shell")
    /\ Refresh
    /\ pc' = "loop"
    /\ UNCHANGED <<visible, levels, cursor, menu_item, assent>>

ItemConsole ==
    /\ Chosen("console")
    /\ IF HaveConsole THEN Refresh /\ UNCHANGED visible
                      ELSE override' = menu_item /\ UNCHANGED <<files, entries>>
    /\ pc' = "loop"
    /\ UNCHANGED <<levels, cursor, menu_item, assent>>

ItemTag ==
    /\ Chosen("tag")
    /\ \/ /\ menu_item \notin marked
          /\ tags' = tags \cup {Target}
          /\ marked' = marked \cup {menu_item}
       \/ /\ menu_item \notin marked
          /\ "tag" \in Faults
          /\ UNCHANGED <<tags, marked>>
       \/ /\ menu_item \in marked
          /\ tags' = tags \ {Target}
          /\ marked' = marked \ {menu_item}
    /\ override' = menu_item
    /\ pc' = "loop"
    /\ UNCHANGED <<file, visible, levels, shown, shownFile, cursor, menu_item, assent>>

\* "too much menus, ignore"
ItemTooDeep ==
    /\ Chosen("menu") \/ Chosen("scripted_menu")
    /\ menu_level + 1 >= MaxLevel
    /\ pc' = "loop"
    /\ UNCHANGED <<files, levels, entries, cursor, override, menu_item, assent>>

\* A slip: a menu that could not be read stays on the stack.
CreateOrPop_Stays(stack, scripts, level) ==
    /\ UNCHANGED tags
    /\ RunsMenuScript(scripts[level], stack[level])
    /\ CreateMenu(stack[level])
    /\ menu_files' = stack
    /\ menu_scripts' = scripts
    /\ menu_level' = level

\* create_menu for the new top of the stack; if it fails, the top is removed
\* (but never the main menu).
CreateOrPop(stack, scripts, level) ==
    /\ UNCHANGED tags
    /\ RunsMenuScript(scripts[level], stack[level])
    /\ CreateMenu(stack[level])
    /\ \/ /\ Opens(stack[level]) \/ level = 0
          /\ menu_files' = stack
          /\ menu_scripts' = scripts
          /\ menu_level' = level
       \/ /\ ~Opens(stack[level]) /\ level > 0
          /\ menu_files' = [stack EXCEPT ![level] = NULL]
          /\ menu_scripts' = [scripts EXCEPT ![level] = FALSE]
          /\ menu_level' = level - 1

\* A slip: the highlight is taken from the level that is left.
ItemBack_OwnEntry ==
    /\ Chosen("menu") /\ Target = ".."
    /\ menu_level + 1 < MaxLevel
    /\ menu_level > 0
    /\ menu_sel' = [menu_sel EXCEPT ![menu_level] = 0]
    /\ override' = menu_sel[menu_level]
    /\ CreateOrPop([menu_files EXCEPT ![menu_level] = NULL],
                   [menu_scripts EXCEPT ![menu_level] = FALSE],
                   menu_level - 1)
    /\ pc' = "loop"
    /\ UNCHANGED <<visible, cursor, menu_item, assent>>

\* A slip: the script of the level that is left is not forgotten.
ItemBack_KeepsScript ==
    /\ Chosen("menu") /\ Target = ".."
    /\ menu_level + 1 < MaxLevel
    /\ menu_level > 0
    /\ menu_sel' = [menu_sel EXCEPT ![menu_level] = 0]
    /\ override' = menu_sel[menu_level - 1]
    /\ CreateOrPop([menu_files EXCEPT ![menu_level] = NULL], menu_scripts, menu_level - 1)
    /\ pc' = "loop"
    /\ UNCHANGED <<visible, cursor, menu_item, assent>>

\* ".." in a submenu
ItemBack ==
    /\ Chosen("menu") /\ Target = ".."
    /\ menu_level + 1 < MaxLevel
    /\ menu_level > 0
    /\ menu_sel' = [menu_sel EXCEPT ![menu_level] = 0]
    /\ override' = menu_sel[menu_level - 1]
    /\ CreateOrPop([menu_files EXCEPT ![menu_level] = NULL],
                   [menu_scripts EXCEPT ![menu_level] = FALSE],
                   menu_level - 1)
    /\ pc' = "loop"
    /\ UNCHANGED <<visible, cursor, menu_item, assent>>

\* ".." in the main menu only reads it again.
ItemBackAtMain ==
    /\ Chosen("menu") /\ Target = ".."
    /\ menu_level + 1 < MaxLevel
    /\ menu_level = 0
    /\ CreateOrPop(menu_files, menu_scripts, 0)
    /\ pc' = "loop"
    /\ UNCHANGED <<visible, menu_sel, cursor, override, menu_item, assent>>

Push(scripted) ==
    /\ menu_level + 1 < MaxLevel
    /\ menu_sel' = [menu_sel EXCEPT ![menu_level] = menu_item]
    /\ CreateOrPop([menu_files EXCEPT ![menu_level + 1] = Target],
                   [menu_scripts EXCEPT ![menu_level + 1] = scripted],
                   menu_level + 1)
    /\ pc' = "loop"
    /\ UNCHANGED <<visible, cursor, override, menu_item, assent>>

ItemNewMenu == Chosen("menu") /\ Target # ".." /\ Push(FALSE)

ItemNewMenuScripted == Chosen("scripted_menu") /\ Push(TRUE)

\* select_action knows no other command.
ItemError ==
    /\ Chosen("unknown") \/ Chosen("label") \/ Chosen("break")
    /\ pc' = "loop"
    /\ UNCHANGED <<files, levels, entries, cursor, override, menu_item, assent>>

\* The phone reboots, or the program is gone.
Stopped == pc \in Broken \cup {"done"} /\ UNCHANGED vars

Loop == Start \/ StartMenu \/ Highlight \/ SelectItem

Commands ==
    \/ ItemReboot \/ ItemWipeData \/ WipeData \/ ItemWipeCache \/ WipeEnds
    \/ ItemApplySdcard \/ InstallFromSdcard \/ ItemShellScript \/ ItemConsole \/ ItemTag
    \/ ItemTooDeep \/ ItemBack \/ ItemBackAtMain \/ ItemNewMenu \/ ItemNewMenuScripted
    \/ ItemError
    \/ \E index \in 0..10 : ConfirmWipe(index)
    \/ \E index \in 0..1 : ConfirmUpdate(index)

Next == Loop \/ Commands \/ ToggleDisplay \/ Stopped

Spec == Init /\ [][Next]_vars

-----------------------------------------------------------------------------
(* What theorems ask of the menu files, and the inductive invariant        *)

\* An entry that opens a submenu.
Onward(e) == e.action = "scripted_menu" \/ (e.action = "menu" /\ e.target # "..")

Readable(m) == Versions[m] \ {NoFile}

\* The main menu is always there, and a menu that a script may remove shows no
\* tags and leads nowhere but back; no menu lists a tag twice.
MenusKept ==
    /\ NoFile \notin Versions[Main]
    /\ \A m \in Menus : \A v \in Readable(m) : \A i \in 1..Len(v) :
          /\ NoFile \in Versions[m] => ~Onward(v[i]) /\ v[i].action # "tag"
          /\ \A k \in 1..Len(v) :
                v[i].action = "tag" /\ v[k].action = "tag" /\ v[i].target = v[k].target
                    => i = k

\* A script that rewrites a menu leaves the entries that open submenus where
\* they are.
EntriesKept ==
    \A m \in Menus : \A v \in Readable(m) : \A i \in 1..Len(v) :
        Onward(v[i]) => \A w \in Versions[m] : /\ w # NoFile
                                               /\ i <= Len(w)
                                               /\ w[i].target = v[i].target

\* Files change only to what a script writes.
FilesKnown == \A m \in Menus : file[m] \in Versions[m]

\* Before the first menu there is nothing.
BeforeStart ==
    pc = "start" => /\ menu_level = 0
                    /\ \A l \in Levels : menu_files[l] = NULL /\ ~menu_scripts[l]
                    /\ shown = <<>> /\ marked = {}

\* The entries on the screen are a version of the file they are taken for.
ShownFromFile ==
    pc # "start" => /\ shownFile \in Menus
                    /\ \E v \in Readable(shownFile) : shown = Loaded(v)

\* A menu that was left for a submenu can be read again.
ParentsKept == \A l \in Levels : l < menu_level => NoFile \notin Versions[menu_files[l]]

\* The entry that is acted upon exists.
ChosenThere == pc = "chosen" => menu_item < Len(shown)

\* A level remembers the entry through which the next one was opened.
LeftThrough ==
    \A l \in Levels : l < menu_level => \A w \in Versions[menu_files[l]] :
        /\ w # NoFile
        /\ menu_sel[l] < Len(Loaded(w))
        /\ Loaded(w)[menu_sel[l] + 1].target = menu_files[l + 1]

-----------------------------------------------------------------------------
(* Properties                                                              *)

\* The stack holds a file for every level up to the current one and nothing
\* above it, and its bottom is the main menu: create_menu is never called
\* with a freed name and every name is freed once.
StackWellFormed ==
    pc # "start" =>
        /\ menu_files[0] = Main /\ ~menu_scripts[0]
        /\ \A l \in Levels : (menu_files[l] # NULL) <=> (l <= menu_level)
        /\ \A l \in Levels : menu_scripts[l] => l <= menu_level

\* The entries on the screen are those of the menu on top of the stack, so
\* that "..", a refresh and a pushed submenu refer to what the user sees.
ShowsTopOfStack == pc # "start" => shownFile = menu_files[menu_level]

\* The program uses a missing entry, searches in vain for a selectable one or
\* reads past the entries only in a menu that has none to select or fills the
\* array: never because a script has shortened the menu under the highlight.
SelectionSafe ==
    pc \in Broken => Selectable = {} \/ Len(shown) = MaxItems

\* The highlighted entry is within the scroll window, and the window within
\* the menu.
HighlightOnScreen ==
    pc = "keys" /\ shown # <<>> =>
        /\ menu_item_top <= selected
        /\ selected < menu_item_top + OnScreen
        /\ menu_item_top + OnScreen <= Len(shown)

\* A tag is shown with an X exactly if its file exists, in whichever menu or
\* by whichever script it was changed.
TagsShown ==
    pc # "start" => \A i \in 0..(Len(shown) - 1) :
        shown[i + 1].action = "tag" => (i \in marked <=> shown[i + 1].target \in tags)

\* Data is wiped and a package installed only after "Yes", or, for the wipe,
\* with the text hidden.
ActsOnlyOnYes ==
    /\ pc = "wipe" => assent \in {"Yes", "hidden"}
    /\ pc = "update" => assent = "Yes"

\* What the screen shows is what prompt_and_wait acts on: a well-formed stack,
\* the entries of its top, their tags, and the highlight in the window.
MenuTrue == TypeOK /\ StackWellFormed /\ ShowsTopOfStack /\ TagsShown /\ HighlightOnScreen

\* No choice is made that the user did not make: entries are there when they
\* are used (get_menu_selection), and what destroys data was confirmed.
ChoicesSafe == SelectionSafe /\ ActsOnlyOnYes

\* The invariant from which MenuTrue and ChoicesSafe follow.
MenuInv == MenuTrue /\ ChoicesSafe /\ FilesKnown /\ BeforeStart /\ ShownFromFile
              /\ ParentsKept /\ ChosenThere

\* Going back highlights the entry through which the submenu was entered.
BackRestores ==
    [][ItemBack /\ menu_level' = menu_level - 1 =>
          /\ override' < Len(shown')
          /\ shown'[override' + 1].target = menu_files[menu_level]]_vars
=============================================================================
