------------------------- MODULE RecoveryBootProofs -------------------------
(* Theorems about RecoveryBoot, for every set of requests, every choice of  *)
(* device errors, both boot variants and all bounds.                        *)
EXTENDS RecoveryBoot, TLAPS

\* The messages the call sites of set_bootloader_message write are well formed.
LEMMA MessageAtType ==
    ASSUME TypeOK
    PROVE  MessageAt(site) \in Message
  BY DEF TypeOK, MessageAt, Message, Blank, Sites, Option

\* Both continuations of set_bootloader_message are control locations.
LEMMA AfterMessageType ==
    ASSUME TypeOK
    PROVE  /\ AfterMessage(site) \in Locations
           /\ AfterMessageFailed(site) \in Locations
  BY DEF TypeOK, AfterMessage, AfterMessageFailed, Locations, Sites

\* Returning from erase_root or finish_recovery leads to a control location.
LEMMA ReturnsAreLocations == Returns \subseteq Locations
  BY DEF Returns, Locations

\* Passing control on resets the volatile state to well-typed values.
LEMMA ForgetType ==
    ASSUME NEW n \in Nodes, NEW loc \in Locations, Forget(n, loc)
    PROVE  /\ node' \in Nodes /\ pc' \in Locations /\ site' \in Sites
           /\ cont' \in Returns /\ opt' \in SUBSET Option
           /\ status' \in {"success", "error"} /\ pending' \in BOOLEAN
  BY DEF Forget, Sites, Returns, Nodes, Locations

LEMMA InitType == Init => TypeOK
  <1> SUFFICES ASSUME Init PROVE TypeOK
    OBVIOUS
  <1>1. bcb \in Message /\ cmd \in [Builds -> SUBSET Option]
    BY DEF Init, Message, Blank
  <1>2. pkg \in BOOLEAN /\ intent \in BOOLEAN /\ byKey \in BOOLEAN /\ pending \in BOOLEAN
    BY DEF Init
  <1>3. /\ requests \in 0..MaxRequests
        /\ crashes \in 0..MaxCrashes
        /\ menuOps \in 0..MaxMenuOps
    BY BoundsAssumption DEF Init
  <1>4. /\ node \in Nodes /\ pc \in Locations /\ site \in Sites /\ cont \in Returns
    BY DEF Init, Nodes, Builds, Locations, Sites, Returns
  <1> QED
    BY <1>1, <1>2, <1>3, <1>4 DEF Init, TypeOK

LEMMA RequestType == TypeOK /\ Request => TypeOK'
  <1> SUFFICES ASSUME TypeOK, Request PROVE TypeOK'
    OBVIOUS
  <1>1. ASSUME NEW b \in Builds, NEW r \in Requests, MainWritesCommand(b, r)
        PROVE  TypeOK'
    <2>1. r \in SUBSET Option
      BY RequestsAssumption
    <2>2. cmd' \in [Builds -> SUBSET Option]
      BY <1>1, <2>1 DEF MainWritesCommand, TypeOK
    <2> QED
      BY <1>1, <2>2, BoundsAssumption DEF MainWritesCommand, TypeOK, volatile
  <1>2. ASSUME MainRebootsIntoRecovery PROVE TypeOK'
    <2>1. "bootloader" \in Nodes /\ "off" \in Locations
      BY DEF Nodes, Locations
    <2>2. bcb' \in Message
      BY <1>2 DEF MainRebootsIntoRecovery, Message, TypeOK
    <2> QED
      BY <1>2, <2>1, <2>2, ForgetType DEF MainRebootsIntoRecovery, TypeOK, bounds
  <1> QED
    BY <1>1, <1>2 DEF Request

LEMMA LoaderType == TypeOK /\ Loader => TypeOK'
  <1> SUFFICES ASSUME TypeOK, Loader PROVE TypeOK'
    OBVIOUS
  <1>0. /\ "main" \in Nodes /\ "lite" \in Nodes
        /\ "off" \in Locations /\ "get_args" \in Locations
    BY DEF Nodes, Builds, Locations
  <1>1. CASE BootRecovery
    BY <1>0, <1>1, ForgetType DEF BootRecovery, TypeOK, flash, bounds
  <1>2. CASE BootMain
    BY <1>0, <1>2, ForgetType DEF BootMain, TypeOK, flash, bounds
  <1>3. CASE BootUpdatesFirmware
    <2>1. bcb' \in Message
      BY <1>3 DEF BootUpdatesFirmware, Message, TypeOK
    <2> QED
      BY <1>3, <2>1 DEF BootUpdatesFirmware, TypeOK, volatile, bounds
  <1> QED
    BY <1>1, <1>2, <1>3 DEF Loader

LEMMA BcbType == TypeOK /\ Bcb => TypeOK'
  <1> SUFFICES ASSUME TypeOK, Bcb PROVE TypeOK'
    OBVIOUS
  <1>0. Blank \in Message /\ MarkFor(MessageAt(site)) \in Message
    BY MessageAtType DEF Blank, Message, MarkFor
  <1>1. CASE EraseMessage
    BY <1>0, <1>1 DEF EraseMessage, TypeOK, bounds, Locations
  <1>2. CASE WriteMessage
    BY <1>2, MessageAtType, AfterMessageType DEF WriteMessage, TypeOK, bounds
  <1>3. CASE WriteMark
    BY <1>0, <1>3, AfterMessageType DEF WriteMark, TypeOK, bounds
  <1>4. CASE MessageFails
    BY <1>4, AfterMessageType DEF MessageFails, TypeOK, flash, bounds, Returns, Causes
  <1> QED
    BY <1>1, <1>2, <1>3, <1>4 DEF Bcb

LEMMA EraseType == TypeOK /\ Erase => TypeOK'
  <1> SUFFICES ASSUME TypeOK, Erase PROVE TypeOK'
    OBVIOUS
  <1>0. Blank \in Message
    BY DEF Blank, Message
  <1>1. CASE EraseDataBegins
    BY <1>1 DEF EraseDataBegins, TypeOK, bounds, Locations
  <1>2. CASE EraseDataEnds
    BY <1>2 DEF EraseDataEnds, TypeOK, bounds, Locations
  <1>3. CASE EraseCacheBegins
    <2>1. cmd' \in [Builds -> SUBSET Option]
      BY <1>3 DEF EraseCacheBegins, TypeOK
    <2>2. pkg' \in BOOLEAN /\ intent' \in BOOLEAN
      BY <1>3 DEF EraseCacheBegins, TypeOK
    <2>3. bcb' \in Message
      BY <1>0, <1>3 DEF EraseCacheBegins, TypeOK
    <2> QED
      BY <1>3, <2>1, <2>2, <2>3 DEF EraseCacheBegins, TypeOK, bounds, Locations
  <1>4. CASE EraseCacheEnds
    <2>1. cmd' \in [Builds -> SUBSET Option]
      BY <1>4 DEF EraseCacheEnds
    <2> QED
      BY <1>0, <1>4, <2>1, ReturnsAreLocations DEF EraseCacheEnds, TypeOK, bounds
  <1>5. CASE EraseFails
    BY <1>5, ReturnsAreLocations DEF EraseFails, TypeOK, flash, bounds, Locations, Causes
  <1> QED
    BY <1>1, <1>2, <1>3, <1>4, <1>5 DEF Erase

LEMMA InstallType == TypeOK /\ Install => TypeOK'
  <1> SUFFICES ASSUME TypeOK, Install PROVE TypeOK'
    OBVIOUS
  <1>0. ASSUME NEW ok \in BOOLEAN, AfterInstall(ok)
        PROVE  /\ pc' \in Locations /\ status' \in {"success", "error"}
               /\ site' \in Sites /\ cont' \in Returns
    BY <1>0 DEF AfterInstall, TypeOK, Locations, Sites, Returns
  <1>1. CASE InstallBegins
    BY <1>1 DEF InstallBegins, TypeOK, bounds, Locations
  <1>2. CASE InstallSucceeds
    BY <1>0, <1>2 DEF InstallSucceeds, TypeOK, bounds
  <1>3. CASE InstallFails
    <2>1. system' \in {"old", "partial", "new"} /\ excuse' \in SUBSET Causes
      BY <1>3 DEF InstallFails, TypeOK, Causes
    <2> QED
      BY <1>0, <1>3, <2>1 DEF InstallFails, TypeOK, bounds
  <1>4. CASE UnlinkPackage
    BY <1>4 DEF UnlinkPackage, TypeOK, bounds, AfterCommand, Locations
  <1> QED
    BY <1>1, <1>2, <1>3, <1>4 DEF Install

LEMMA FirmwareType == TypeOK /\ Firmware => TypeOK'
  <1> SUFFICES ASSUME TypeOK, Firmware PROVE TypeOK'
    OBVIOUS
  <1>1. CASE MaybeInstallFirmware
    BY <1>1 DEF MaybeInstallFirmware, TypeOK, flash, bounds, Locations, Sites
  <1>2. CASE WriteUpdateBegins
    <2>1. cmd' \in [Builds -> SUBSET Option] /\ Blank \in Message
      BY <1>2 DEF WriteUpdateBegins, Blank, Message
    <2> QED
      BY <1>2, <2>1 DEF WriteUpdateBegins, TypeOK, bounds, Locations
  <1>3. CASE WriteUpdateEnds
    BY <1>3 DEF WriteUpdateEnds, TypeOK, bounds, Locations, Sites
  <1>4. CASE WriteUpdateFails
    BY <1>4 DEF WriteUpdateFails, TypeOK, flash, bounds, Locations, Returns
  <1> QED
    BY <1>1, <1>2, <1>3, <1>4 DEF Firmware

LEMMA ArgsType == TypeOK /\ (GetArgs \/ GetCmdFileArgs \/ Dispatch) => TypeOK'
  <1> SUFFICES ASSUME TypeOK, GetArgs \/ GetCmdFileArgs \/ Dispatch PROVE TypeOK'
    OBVIOUS
  <1>0. /\ \A b \in Builds : CommandFile(b) \in SUBSET Option
        /\ bcb.args \in SUBSET Option
        /\ "lite" \in Builds /\ "full" \in Builds
    BY DEF CommandFile, TypeOK, Message, Builds
  <1>1. CASE GetArgs
    BY <1>0, <1>1 DEF GetArgs, TypeOK, flash, bounds, Locations, Sites
  <1>2. CASE GetCmdFileArgs
    BY <1>0, <1>2 DEF GetCmdFileArgs, TypeOK, flash, bounds, Locations
  <1>3. CASE Dispatch
    BY <1>3 DEF Dispatch, AfterCommand, TypeOK, flash, bounds, Locations, Returns
  <1> QED
    BY <1>1, <1>2, <1>3

\* The remaining steps of main and of the menu.
MainStep == \/ SwitchToFull \/ StayLite \/ AfterSwitch \/ PromptAndWait
            \/ FinishRecovery \/ UnlinkCommand \/ Reboot
            \/ MenuReboot \/ MenuWipe \/ MenuInstall \/ Crash

LEMMA MainStepType == TypeOK /\ MainStep => TypeOK'
  <1> SUFFICES ASSUME TypeOK, MainStep PROVE TypeOK'
    OBVIOUS
  <1>0. /\ "full" \in Nodes /\ "bootloader" \in Nodes
        /\ "off" \in Locations /\ "get_args" \in Locations
    BY DEF Nodes, Builds, Locations
  <1>1. CASE SwitchToFull
    BY <1>0, <1>1, ForgetType DEF SwitchToFull, TypeOK, flash, bounds, Causes
  <1>2. CASE StayLite
    BY <1>2 DEF StayLite, TypeOK, flash, bounds, Locations
  <1>3. CASE AfterSwitch
    BY <1>3 DEF AfterSwitch, TypeOK, flash, bounds, Locations, Causes
  <1>4. CASE PromptAndWait
    BY <1>4 DEF PromptAndWait, TypeOK, flash, bounds, Locations, Sites, Returns
  <1>5. CASE FinishRecovery
    <2>1. intent' \in BOOLEAN
      BY <1>5 DEF FinishRecovery
    <2> QED
      BY <1>5, <2>1 DEF FinishRecovery, TypeOK, bounds, Locations, Sites, Returns
  <1>6. CASE UnlinkCommand
    <2>1. cmd' \in [Builds -> SUBSET Option]
      BY <1>6 DEF UnlinkCommand, TypeOK, At, Running
    <2> QED
      BY <1>6, <2>1, ReturnsAreLocations DEF UnlinkCommand, TypeOK, bounds
  <1>7. CASE Reboot
    BY <1>0, <1>7, ForgetType DEF Reboot, TypeOK, flash, bounds
  <1>8. CASE MenuReboot
    BY <1>8 DEF MenuReboot, TypeOK, flash, bounds, Locations
  <1>9. CASE MenuWipe
    <2>1. menuOps' \in 0..MaxMenuOps
      BY <1>9, BoundsAssumption DEF MenuWipe, TypeOK
    <2> QED
      BY <1>9, <2>1 DEF MenuWipe, TypeOK, flash, Locations, Returns, Causes
  <1>10. CASE MenuInstall
    <2>1. menuOps' \in 0..MaxMenuOps
      BY <1>10, BoundsAssumption DEF MenuInstall, TypeOK
    <2> QED
      BY <1>10, <2>1 DEF MenuInstall, TypeOK, flash, Locations, Sites
  <1>11. CASE Crash
    <2>1. crashes' \in 0..MaxCrashes
      BY <1>11, BoundsAssumption DEF Crash, TypeOK
    <2> QED
      BY <1>0, <1>11, <2>1, ForgetType DEF Crash, TypeOK, flash, Causes
  <1> QED
    BY <1>1, <1>2, <1>3, <1>4, <1>5, <1>6, <1>7, <1>8, <1>9, <1>10, <1>11 DEF MainStep

LEMMA StutterType == TypeOK /\ UNCHANGED vars => TypeOK'
  BY DEF TypeOK, vars, flash, volatile, bounds

\* Every state of every behaviour is well typed: each action of main, of the menu,
\* of the loader and a power loss at any point leave BCB, command files, partition
\* states and control locations within their types.
THEOREM TypeCorrect == Spec => []TypeOK
  <1>1. Init => TypeOK
    BY InitType
  <1>2. TypeOK /\ [Next]_vars => TypeOK'
    BY RequestType, LoaderType, BcbType, EraseType, InstallType, FirmwareType,
       ArgsType, MainStepType, StutterType DEF Next, Program, MainStep
  <1> QED
    BY <1>1, <1>2, PTL DEF Spec

(* The boot loader is told to flash a complete image or none.               *)

LEMMA FlashInit == Init => FlashOrdered
  BY DEF Init, FlashOrdered, Blank, At, Running, Builds

LEMMA FlashStep == TypeOK /\ FlashOrdered /\ [Next]_vars => FlashOrdered'
  <1> SUFFICES ASSUME TypeOK, FlashOrdered, [Next]_vars PROVE FlashOrdered'
    OBVIOUS
  <1> USE DEF TypeOK, FlashOrdered, At, Running, Builds
  <1>1. ASSUME NEW b \in Builds, NEW r \in Requests, MainWritesCommand(b, r)
        PROVE  FlashOrdered'
    BY <1>1 DEF MainWritesCommand, volatile
  <1>2. CASE MainRebootsIntoRecovery
    BY <1>2 DEF MainRebootsIntoRecovery, Forget
  <1>3. CASE BootRecovery
    BY <1>3 DEF BootRecovery, Forget, flash
  <1>4. CASE BootMain
    BY <1>4 DEF BootMain, Forget, flash
  <1>5. CASE BootUpdatesFirmware
    BY <1>5 DEF BootUpdatesFirmware, volatile
  <1>6. CASE EraseMessage
    BY <1>6 DEF EraseMessage, Blank
  <1>7. CASE WriteMessage
    BY <1>7 DEF WriteMessage, MessageAt, AfterMessage, Blank, Sites
  <1>8. CASE WriteMark
    BY <1>8 DEF WriteMark, MarkFor, MessageAt, AfterMessage, Blank, Sites
  <1>9. CASE MessageFails
    BY <1>9 DEF MessageFails, flash, AfterMessageFailed, AfterMessage, Sites
  <1>10. CASE EraseDataBegins
    BY <1>10 DEF EraseDataBegins
  <1>11. CASE EraseDataEnds
    BY <1>11 DEF EraseDataEnds
  <1>12. CASE EraseCacheBegins
    BY <1>12 DEF EraseCacheBegins, Blank
  <1>13. CASE EraseCacheEnds
    BY <1>13 DEF EraseCacheEnds, Blank, Returns
  <1>14. CASE EraseFails
    BY <1>14 DEF EraseFails, flash, Returns
  <1>15. CASE InstallBegins
    BY <1>15 DEF InstallBegins
  <1>16. CASE InstallSucceeds
    BY <1>16 DEF InstallSucceeds, AfterInstall
  <1>17. CASE InstallFails
    BY <1>17 DEF InstallFails, AfterInstall
  <1>18. CASE UnlinkPackage
    BY <1>18 DEF UnlinkPackage, AfterCommand
  <1>19. CASE MaybeInstallFirmware
    BY <1>19 DEF MaybeInstallFirmware, flash
  <1>20. CASE WriteUpdateBegins
    BY <1>20 DEF WriteUpdateBegins, Blank
  <1>21. CASE WriteUpdateEnds
    BY <1>21 DEF WriteUpdateEnds
  <1>22. CASE WriteUpdateFails
    BY <1>22 DEF WriteUpdateFails, flash
  <1>23. CASE GetArgs
    BY <1>23 DEF GetArgs, flash
  <1>24. CASE GetCmdFileArgs
    BY <1>24 DEF GetCmdFileArgs, flash
  <1>25. CASE Dispatch
    BY <1>25 DEF Dispatch, flash, AfterCommand
  <1>26. CASE SwitchToFull
    BY <1>26 DEF SwitchToFull, Forget, flash
  <1>27. CASE StayLite
    BY <1>27 DEF StayLite, flash
  <1>28. CASE AfterSwitch
    BY <1>28 DEF AfterSwitch, flash
  <1>29. CASE PromptAndWait
    BY <1>29 DEF PromptAndWait, flash
  <1>30. CASE FinishRecovery
    BY <1>30 DEF FinishRecovery
  <1>31. CASE UnlinkCommand
    BY <1>31 DEF UnlinkCommand, Returns
  <1>32. CASE Reboot
    BY <1>32 DEF Reboot, Forget, flash
  <1>33. CASE MenuReboot
    BY <1>33 DEF MenuReboot, flash
  <1>34. CASE MenuWipe
    BY <1>34 DEF MenuWipe, flash
  <1>35. CASE MenuInstall
    BY <1>35 DEF MenuInstall, flash
  <1>36. CASE Crash
    BY <1>36 DEF Crash, Forget, flash
  <1>37. CASE UNCHANGED vars
    BY <1>37 DEF vars, flash, volatile
  <1> QED
    BY <1>1, <1>2, <1>3, <1>4, <1>5, <1>6, <1>7, <1>8, <1>9, <1>10, <1>11, <1>12,
       <1>13, <1>14, <1>15, <1>16, <1>17, <1>18, <1>19, <1>20, <1>21, <1>22,
       <1>23, <1>24, <1>25, <1>26, <1>27, <1>28, <1>29, <1>30, <1>31, <1>32,
       <1>33, <1>34, <1>35, <1>36, <1>37
       DEF Next, Request, Loader, Program, Bcb, Erase, Install, Firmware

\* The loader is never told to flash an image that is not completely written, header
\* included, whatever fails and wherever power is lost (steps 8b-8e of OTA INSTALL;
\* write_update_for_bootloader before the second set_bootloader_message).
THEOREM FlashesCompleteImage == Spec => []UpdateImageComplete
  <1>1. FlashOrdered => UpdateImageComplete
    BY DEF FlashOrdered, UpdateImageComplete
  <1> QED
    BY <1>1, FlashInit, FlashStep, TypeCorrect, PTL DEF Spec

(* A destroyed CACHE is wiped before the main system sees it.               *)

LEMMA CacheInit == Init => DestroyedCacheCovered
  BY DEF Init, DestroyedCacheCovered, At, Running, Builds

LEMMA CacheStep ==
    ASSUME ~Bootstrap
    PROVE  TypeOK /\ DestroyedCacheCovered /\ [Next]_vars => DestroyedCacheCovered'
  <1> SUFFICES ASSUME TypeOK, DestroyedCacheCovered, [Next]_vars
               PROVE  DestroyedCacheCovered'
    OBVIOUS
  <1> USE DEF TypeOK, DestroyedCacheCovered, At, Running, Builds, WipesCache
  <1>1. ASSUME NEW b \in Builds, NEW r \in Requests, MainWritesCommand(b, r)
        PROVE  DestroyedCacheCovered'
    BY <1>1 DEF MainWritesCommand, volatile
  <1>2. CASE MainRebootsIntoRecovery
    BY <1>2 DEF MainRebootsIntoRecovery, Forget
  <1>3. CASE BootRecovery
    BY <1>3 DEF BootRecovery, Forget, flash
  <1>4. CASE BootMain
    BY <1>4 DEF BootMain, Forget, flash
  <1>5. CASE BootUpdatesFirmware
    BY <1>5 DEF BootUpdatesFirmware, volatile
  <1>6. CASE EraseMessage
    BY <1>6 DEF EraseMessage, Blank
  <1>7. CASE WriteMessage
    BY <1>7 DEF WriteMessage, MessageAt, AfterMessage, Blank, Sites
  <1>8. CASE WriteMark
    BY <1>8 DEF WriteMark, MarkFor, MessageAt, AfterMessage, Blank, Sites
  <1>9. CASE MessageFails
    BY <1>9 DEF MessageFails, flash, AfterMessageFailed, AfterMessage, Sites
  <1>10. CASE EraseDataBegins
    BY <1>10 DEF EraseDataBegins
  <1>11. CASE EraseDataEnds
    BY <1>11 DEF EraseDataEnds
  <1>12. CASE EraseCacheBegins
    BY <1>12 DEF EraseCacheBegins, Blank
  <1>13. CASE EraseCacheEnds
    BY <1>13 DEF EraseCacheEnds, Blank, Returns
  <1>14. CASE EraseFails
    BY <1>14 DEF EraseFails, flash, Returns
  <1>15. CASE InstallBegins
    BY <1>15 DEF InstallBegins
  <1>16. CASE InstallSucceeds
    BY <1>16 DEF InstallSucceeds, AfterInstall
  <1>17. CASE InstallFails
    BY <1>17 DEF InstallFails, AfterInstall
  <1>18. CASE UnlinkPackage
    BY <1>18 DEF UnlinkPackage, AfterCommand
  <1>19. CASE MaybeInstallFirmware
    BY <1>19 DEF MaybeInstallFirmware, flash
  <1>20. CASE WriteUpdateBegins
    BY <1>20 DEF WriteUpdateBegins, Blank
  <1>21. CASE WriteUpdateEnds
    BY <1>21 DEF WriteUpdateEnds
  <1>22. CASE WriteUpdateFails
    BY <1>22 DEF WriteUpdateFails, flash
  <1>23. CASE GetArgs
    BY <1>23 DEF GetArgs, flash
  <1>24. CASE GetCmdFileArgs
    BY <1>24 DEF GetCmdFileArgs, flash
  <1>25. CASE Dispatch
    BY <1>25 DEF Dispatch, flash, AfterCommand
  <1>26. CASE SwitchToFull
    BY <1>26 DEF SwitchToFull, Forget, flash
  <1>27. CASE StayLite
    BY <1>27 DEF StayLite, flash
  <1>28. CASE AfterSwitch
    BY <1>28 DEF AfterSwitch, flash
  <1>29. CASE PromptAndWait
    BY <1>29 DEF PromptAndWait, flash
  <1>30. CASE FinishRecovery
    BY <1>30 DEF FinishRecovery
  <1>31. CASE UnlinkCommand
    BY <1>31 DEF UnlinkCommand, Returns
  <1>32. CASE Reboot
    BY <1>32 DEF Reboot, Forget, flash
  <1>33. CASE MenuReboot
    BY <1>33 DEF MenuReboot, flash
  <1>34. CASE MenuWipe
    BY <1>34 DEF MenuWipe, flash
  <1>35. CASE MenuInstall
    BY <1>35 DEF MenuInstall, flash
  <1>36. CASE Crash
    BY <1>36 DEF Crash, Forget, flash
  <1>37. CASE UNCHANGED vars
    BY <1>37 DEF vars, flash, volatile
  <1> QED
    BY <1>1, <1>2, <1>3, <1>4, <1>5, <1>6, <1>7, <1>8, <1>9, <1>10, <1>11, <1>12,
       <1>13, <1>14, <1>15, <1>16, <1>17, <1>18, <1>19, <1>20, <1>21, <1>22,
       <1>23, <1>24, <1>25, <1>26, <1>27, <1>28, <1>29, <1>30, <1>31, <1>32,
       <1>33, <1>34, <1>35, <1>36, <1>37
       DEF Next, Request, Loader, Program, Bcb, Erase, Install, Firmware

\* On a phone with a BCB the main system never meets a destroyed CACHE unless one of
\* the reserved events happened: the wipe instruction is out before write_update_-
\* for_bootloader starts and stays out until erase_root has run ("Set up this
\* instruction now, in case we're interrupted while writing").
THEOREM CacheRecovered == ASSUME ~Bootstrap PROVE Spec => []CacheUsable
  <1>1. DestroyedCacheCovered => CacheUsable
    BY DEF DestroyedCacheCovered, CacheUsable
  <1> QED
    BY <1>1, CacheInit, CacheStep, TypeCorrect, PTL DEF Spec

(* A package chosen in the menu is installed under a message that leads back. *)

LEMMA SdcardInit == Init => SdcardOrdered
  BY DEF Init, SdcardOrdered, At, Running, Builds

LEMMA SdcardStep == TypeOK /\ SdcardOrdered /\ [Next]_vars => SdcardOrdered'
  <1> SUFFICES ASSUME TypeOK, SdcardOrdered, [Next]_vars PROVE SdcardOrdered'
    OBVIOUS
  <1> USE DEF TypeOK, SdcardOrdered, At, Running, Builds
  <1>1. ASSUME NEW b \in Builds, NEW r \in Requests, MainWritesCommand(b, r)
        PROVE  SdcardOrdered'
    BY <1>1 DEF MainWritesCommand, volatile
  <1>2. CASE MainRebootsIntoRecovery
    BY <1>2 DEF MainRebootsIntoRecovery, Forget
  <1>3. CASE BootRecovery
    BY <1>3 DEF BootRecovery, Forget, flash
  <1>4. CASE BootMain
    BY <1>4 DEF BootMain, Forget, flash
  <1>5. CASE BootUpdatesFirmware
    BY <1>5 DEF BootUpdatesFirmware, volatile
  <1>6. CASE EraseMessage
    BY <1>6 DEF EraseMessage, Blank
  <1>7. CASE WriteMessage
    BY <1>7 DEF WriteMessage, MessageAt, AfterMessage, Blank, Sites
  <1>8. CASE WriteMark
    BY <1>8 DEF WriteMark, MarkFor, MessageAt, AfterMessage, Blank, Sites
  <1>9. CASE MessageFails
    BY <1>9 DEF MessageFails, flash, AfterMessageFailed, AfterMessage, Sites
  <1>10. CASE EraseDataBegins
    BY <1>10 DEF EraseDataBegins
  <1>11. CASE EraseDataEnds
    BY <1>11 DEF EraseDataEnds
  <1>12. CASE EraseCacheBegins
    BY <1>12 DEF EraseCacheBegins, Blank
  <1>13. CASE EraseCacheEnds
    BY <1>13 DEF EraseCacheEnds, Blank, Returns
  <1>14. CASE EraseFails
    BY <1>14 DEF EraseFails, flash, Returns
  <1>15. CASE InstallBegins
    BY <1>15 DEF InstallBegins
  <1>16. CASE InstallSucceeds
    BY <1>16 DEF InstallSucceeds, AfterInstall
  <1>17. CASE InstallFails
    BY <1>17 DEF InstallFails, AfterInstall
  <1>18. CASE UnlinkPackage
    BY <1>18 DEF UnlinkPackage, AfterCommand
  <1>19. CASE MaybeInstallFirmware
    BY <1>19 DEF MaybeInstallFirmware, flash
  <1>20. CASE WriteUpdateBegins
    BY <1>20 DEF WriteUpdateBegins, Blank
  <1>21. CASE WriteUpdateEnds
    BY <1>21 DEF WriteUpdateEnds
  <1>22. CASE WriteUpdateFails
    BY <1>22 DEF WriteUpdateFails, flash
  <1>23. CASE GetArgs
    BY <1>23 DEF GetArgs, flash
  <1>24. CASE GetCmdFileArgs
    BY <1>24 DEF GetCmdFileArgs, flash
  <1>25. CASE Dispatch
    BY <1>25 DEF Dispatch, flash, AfterCommand
  <1>26. CASE SwitchToFull
    BY <1>26 DEF SwitchToFull, Forget, flash
  <1>27. CASE StayLite
    BY <1>27 DEF StayLite, flash
  <1>28. CASE AfterSwitch
    BY <1>28 DEF AfterSwitch, flash
  <1>29. CASE PromptAndWait
    BY <1>29 DEF PromptAndWait, flash
  <1>30. CASE FinishRecovery
    BY <1>30 DEF FinishRecovery
  <1>31. CASE UnlinkCommand
    BY <1>31 DEF UnlinkCommand, Returns
  <1>32. CASE Reboot
    BY <1>32 DEF Reboot, Forget, flash
  <1>33. CASE MenuReboot
    BY <1>33 DEF MenuReboot, flash
  <1>34. CASE MenuWipe
    BY <1>34 DEF MenuWipe, flash
  <1>35. CASE MenuInstall
    BY <1>35 DEF MenuInstall, flash
  <1>36. CASE Crash
    BY <1>36 DEF Crash, Forget, flash
  <1>37. CASE UNCHANGED vars
    BY <1>37 DEF vars, flash, volatile
  <1> QED
    BY <1>1, <1>2, <1>3, <1>4, <1>5, <1>6, <1>7, <1>8, <1>9, <1>10, <1>11, <1>12,
       <1>13, <1>14, <1>15, <1>16, <1>17, <1>18, <1>19, <1>20, <1>21, <1>22, <1>23,
       <1>24, <1>25, <1>26, <1>27, <1>28, <1>29, <1>30, <1>31, <1>32, <1>33, <1>34,
       <1>35, <1>36, <1>37
       DEF Next, Request, Loader, Program, Bcb, Erase, Install, Firmware

\* While a package chosen in the menu is being installed, on a phone of either kind, a
\* power loss leads back into recovery: set_sdcard_update_bootloader_message is called
\* before install_package, and nothing takes its message back before the end.
THEOREM SdcardProtected == Spec => []SdcardInstallProtected
  <1>1. SdcardOrdered => SdcardInstallProtected
    BY DEF SdcardOrdered, SdcardInstallProtected
  <1> QED
    BY <1>1, SdcardInit, SdcardStep, TypeCorrect, PTL DEF Spec

(* What is half done is finished, or its failure shown, before the main      *)
(* system starts.                                                            *)

LEMMA RestartInit == Init => RestartCovered
  BY DEF Init, RestartCovered, HalfDoneCovered, HalfDone, LiteCovered, FullCovered,
         MenuIsLite, At, Running, Builds

LEMMA RestartStep ==
    ASSUME ~Bootstrap
    PROVE  TypeOK /\ RestartCovered /\ [Next]_vars => RestartCovered'
  <1> SUFFICES ASSUME TypeOK, RestartCovered, [Next]_vars
               PROVE  RestartCovered'
    OBVIOUS
  <1> USE DEF TypeOK, RestartCovered, HalfDoneCovered, HalfDone, LiteCovered, FullCovered,
              MenuIsLite, Repairs, Fruitless, Restarted, CommandFile, At, Running, Builds
  <1>1. ASSUME NEW b \in Builds, NEW r \in Requests, MainWritesCommand(b, r)
        PROVE  RestartCovered'
    BY <1>1 DEF MainWritesCommand, volatile
  <1>2. CASE MainRebootsIntoRecovery
    BY <1>2 DEF MainRebootsIntoRecovery, Forget
  <1>3. CASE BootRecovery
    BY <1>3 DEF BootRecovery, Forget, flash
  <1>4. CASE BootMain
    BY <1>4 DEF BootMain, Forget, flash
  <1>5. CASE BootUpdatesFirmware
    BY <1>5 DEF BootUpdatesFirmware, volatile
  <1>6. CASE EraseMessage
    BY <1>6 DEF EraseMessage, Blank
  <1>7. CASE WriteMessage
    BY <1>7 DEF WriteMessage, MessageAt, AfterMessage, Blank, Sites
  <1>8. CASE WriteMark
    BY <1>8 DEF WriteMark, MarkFor, MessageAt, AfterMessage, Blank, Sites
  <1>9. CASE MessageFails
    BY <1>9 DEF MessageFails, flash, AfterMessageFailed, AfterMessage, Sites
  <1>10. CASE EraseDataBegins
    BY <1>10 DEF EraseDataBegins
  <1>11. CASE EraseDataEnds
    BY <1>11 DEF EraseDataEnds
  <1>12. CASE EraseCacheBegins
    BY <1>12 DEF EraseCacheBegins, Blank
  <1>13. CASE EraseCacheEnds
    BY <1>13 DEF EraseCacheEnds, Blank, Returns
  <1>14. CASE EraseFails
    BY <1>14 DEF EraseFails, flash, Returns
  <1>15. CASE InstallBegins
    BY <1>15 DEF InstallBegins
  <1>16. CASE InstallSucceeds
    BY <1>16 DEF InstallSucceeds, AfterInstall
  <1>17. CASE InstallFails
    BY <1>17 DEF InstallFails, AfterInstall
  <1>18. CASE UnlinkPackage
    BY <1>18 DEF UnlinkPackage, AfterCommand
  <1>19. CASE MaybeInstallFirmware
    BY <1>19 DEF MaybeInstallFirmware, flash
  <1>20. CASE WriteUpdateBegins
    BY <1>20 DEF WriteUpdateBegins, Blank
  <1>21. CASE WriteUpdateEnds
    BY <1>21 DEF WriteUpdateEnds
  <1>22. CASE WriteUpdateFails
    BY <1>22 DEF WriteUpdateFails, flash
  <1>23. CASE GetArgs
    BY <1>23 DEF GetArgs, flash
  <1>24. CASE GetCmdFileArgs
    BY <1>24 DEF GetCmdFileArgs, flash
  <1>25. CASE Dispatch
    BY <1>25 DEF Dispatch, flash, AfterCommand
  <1>26. CASE SwitchToFull
    BY <1>26 DEF SwitchToFull, Forget, flash
  <1>27. CASE StayLite
    BY <1>27 DEF StayLite, flash
  <1>28. CASE AfterSwitch
    BY <1>28 DEF AfterSwitch, flash
  <1>29. CASE PromptAndWait
    BY <1>29 DEF PromptAndWait, flash
  <1>30. CASE FinishRecovery
    BY <1>30 DEF FinishRecovery
  <1>31. CASE UnlinkCommand
    BY <1>31 DEF UnlinkCommand, Returns
  <1>32. CASE Reboot
    BY <1>32 DEF Reboot, Forget, flash
  <1>33. CASE MenuReboot
    BY <1>33 DEF MenuReboot, flash
  <1>34. CASE MenuWipe
    BY <1>34 DEF MenuWipe, flash
  <1>35. CASE MenuInstall
    BY <1>35 DEF MenuInstall, flash
  <1>36. CASE Crash
    BY <1>36 DEF Crash, Forget, flash
  <1>37. CASE UNCHANGED vars
    BY <1>37 DEF vars, flash, volatile
  <1> QED
    BY <1>1, <1>2, <1>3, <1>4, <1>5, <1>6, <1>7, <1>8, <1>9, <1>10, <1>11, <1>12,
       <1>13, <1>14, <1>15, <1>16, <1>17, <1>18, <1>19, <1>20, <1>21, <1>22, <1>23,
       <1>24, <1>25, <1>26, <1>27, <1>28, <1>29, <1>30, <1>31, <1>32, <1>33, <1>34,
       <1>35, <1>36, <1>37
       DEF Next, Request, Loader, Program, Bcb, Erase, Install, Firmware

\* On a phone with a BCB the main system never starts on half-erased data or a
\* half-written SYSTEM unless one of the reserved events happened: FACTORY RESET and
\* OTA INSTALL are "safely restartable at any point" (recovery.c:60).
THEOREM RestartsSafely == ASSUME ~Bootstrap PROVE Spec => []Restartable
  <1>1. RestartCovered => Restartable
    BY DEF RestartCovered, HalfDoneCovered, HalfDone, Restartable, NoHalfErasedData,
           NoHalfInstalledSystem, At, Running, Builds
  <1> QED
    BY <1>1, RestartInit, RestartStep, TypeCorrect, PTL DEF Spec
=============================================================================
