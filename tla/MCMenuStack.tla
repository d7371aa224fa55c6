---------------------------- MODULE MCMenuStack ----------------------------
(* Menus in the shape of the ones init_recovery.sh and the menu_*.sh        *)
(* scripts write, cut down to the entries that act differently.            *)
EXTENDS MenuStack

E(a, t) == [action |-> a, target |-> t]
Back == E("menu", "..")

MCMenus == {"init", "nand", "backup", "theme"}
MCTags  == {"t"}

MainMenu   == <<E("reboot", "*"), E("menu", "nand"), E("menu", "theme"), E("wipe_data", "*"),
                E("wipe_cache", "*"), E("update", "*"), E("label", "*"), E("console", "*"),
                Back>>
NandMenu   == <<Back, E("scripted_menu", "backup"), E("break", "*"), E("tag", "t"),
                E("menu", "init")>>
BackupMenu == <<Back, E("shell", "*"), E("tag", "t")>>

\* A script run from the generated menu "backup" makes it longer or shorter,
\* empties it, or makes it fill the array (MaxItems = 10); "theme" may fail
\* to be generated or have no selectable entry.  "nand" leads to the main menu,
\* so that the deepest level is reached.
MCVersions ==
    [init   |-> {MainMenu},
     nand   |-> {NandMenu},
     backup |-> {BackupMenu, Append(BackupMenu, E("unknown", "*")), <<Back>>,
                 <<>>, [i \in 1..10 |-> Back]},
     theme  |-> {<<Back>>, <<E("label", "*"), E("break", "*")>>, NoFile}]

\* They are menus the theorems of MenuStackProofs speak of.
ASSUME MenusAreKept == Versions = MCVersions => MenusKept /\ EntriesKept

\* The parent of a submenu may vanish (a script removes it).
MCVanishing ==
    [init   |-> {<<E("reboot", "*"), E("menu", "nand"), E("shell", "*")>>},
     nand   |-> {<<Back, E("menu", "backup")>>, NoFile},
     backup |-> {<<Back, E("shell", "*")>>},
     theme  |-> {NoFile}]
=============================================================================
