------------------------- MODULE ScriptRunnerProofs -------------------------
(* Theorems about ScriptRunner, for every buffer and pipe size, every menu  *)
(* length, all failures and all bounds.                                     *)
EXTENDS ScriptRunner, TLAPS, WellFoundedInduction

\* The loop that collects the entries finds an end within the array.
LEMMA EndExists ==
    ASSUME NEW items \in [Indices -> Items]
    PROVE  \E n \in 0..NumItems :
                /\ \A j \in Indices : j < n => items[j] # NoItem
                /\ n \in Indices => items[n] = NoItem
  <1> USE SizesAssumption
  <1> DEFINE T == {n \in 0..NumItems : n \in Indices => items[n] = NoItem}
             R == OpToRel(<, Nat)
  <1>1. NumItems \in T /\ T \subseteq Nat
    BY DEF Indices
  <1>2. T # {}
    BY <1>1
  <1>3. \E x \in T : \A y \in T : ~(<<y, x>> \in R)
    <2>1. IsWellFoundedOn(R, Nat)
      BY NatLessThanWellFounded
    <2> HIDE DEF T, R
    <2> QED
      BY <1>1, <1>2, <2>1, WFMin
  <1>4. PICK x \in T : \A y \in T : ~(<<y, x>> \in R)
    BY <1>3
  <1>5. \A j \in Indices : j < x => items[j] # NoItem
    <2> SUFFICES ASSUME NEW j \in Indices, j < x, items[j] = NoItem
                 PROVE  FALSE
      OBVIOUS
    <2>1. j \in T
      BY DEF Indices
    <2>2. <<j, x>> \in R
      BY <2>1, <1>1, <1>4 DEF OpToRel
    <2> QED
      BY <2>1, <2>2, <1>4
  <1> QED
    BY <1>4, <1>5

LEMMA NoItemType == NoItem \in Items /\ 0 \in Indices
  BY SizesAssumption DEF Items, Indices

LEMMA AbsentType == Absent \in SharedMenu
  <1>1. [i \in Indices |-> NoItem] \in [Indices -> Items]
    BY NoItemType
  <1>2. 0 \in 0..MaxMenus
    BY BoundsAssumption
  <1> QED
    BY <1>1, <1>2 DEF Absent, Zeroed, SharedMenu

LEMMA ListedType ==
    ASSUME NEW items \in [Indices -> Items]
    PROVE  Listed(items) \in Seq(Items) /\ Len(Listed(items)) <= NumItems
  <1> USE SizesAssumption
  <1> DEFINE IsEnd(n) == /\ \A j \in Indices : j < n => items[j] # NoItem
                         /\ n \in Indices => items[n] = NoItem
             n0 == CHOOSE n \in 0..NumItems : IsEnd(n)
  <1>1. n0 \in 0..NumItems
    BY EndExists
  <1>2. Listed(items) = [i \in 1..n0 |-> items[i - 1]]
    BY DEF Listed
  <1> HIDE DEF n0
  <1>3. \A i \in 1..n0 : i - 1 \in Indices
    BY <1>1 DEF Indices
  <1> QED
    BY <1>1, <1>2, <1>3

LEMMA StepType == TypeOK /\ OutputAccounted /\ [Next]_vars => TypeOK'
  <1> SUFFICES ASSUME TypeOK, OutputAccounted, [Next]_vars PROVE TypeOK'
    OBVIOUS
  <1> USE SizesAssumption, BoundsAssumption
  <1>1. CASE Poll
    <2>1. shm' \in SharedMenu
      BY <1>1 DEF Poll, TypeOK, SharedMenu
    <2> QED
      BY <1>1, <2>1 DEF Poll, outputVars, boundVars, TypeOK, RunnerLocations,
         ScriptLocations
  <1>2. CASE PrintRest
    BY <1>2 DEF PrintRest, ReadOnce, menuVars, boundVars, TypeOK,
       RunnerLocations, ScriptLocations, OutputAccounted, Least
  <1>3. CASE CollectItems
    <2>1. shown' \in Seq(Items) /\ Len(shown') <= NumItems
      BY <1>3, ListedType DEF CollectItems, TypeOK, SharedMenu
    <2> QED
      BY <1>3, <2>1 DEF CollectItems, outputVars, boundVars, TypeOK, RunnerLocations
  <1>4. CASE ClearMenu
    <2>1. NoItem \in Items /\ 0 \in Indices
      BY NoItemType
    <2>2. shm' \in SharedMenu
      <3>1. 0 \in 0..MaxMenus
        OBVIOUS
      <3>2. shm.items \in [Indices -> Items]
        BY DEF TypeOK, SharedMenu
      <3>3. [shm.items EXCEPT ![0] = NoItem] \in [Indices -> Items]
        BY <2>1, <3>2
      <3>4. shm' = [shm EXCEPT !.header = 0, !.items = [shm.items EXCEPT ![0]
         = NoItem]]
        BY <1>4 DEF ClearMenu, TypeOK, SharedMenu
      <3> QED
        BY <3>1, <3>3, <3>4 DEF TypeOK, SharedMenu
    <2> QED
      BY <1>4, <2>2 DEF ClearMenu, outputVars, boundVars, TypeOK, RunnerLocations
  <1>5. CASE Answer
    <2>1. shm' \in SharedMenu
      <3>1. chosen \in Nat
        BY DEF TypeOK
      <3> QED
        BY <1>5, <3>1 DEF Answer, TypeOK, SharedMenu
    <2> QED
      BY <1>5, <2>1 DEF Answer, outputVars, boundVars, TypeOK, RunnerLocations
  <1>6. CASE Read
    BY <1>6 DEF Read, ReadOnce, menuVars, boundVars, TypeOK, RunnerLocations,
       ScriptLocations, OutputAccounted, Least
  <1>7. CASE WaitNoHang
    BY <1>7 DEF WaitNoHang, menuVars, outputVars, boundVars, TypeOK,
       RunnerLocations, ScriptLocations, OutputAccounted, Least
  <1>8. CASE LastRead
    BY <1>8 DEF LastRead, ReadOnce, menuVars, boundVars, TypeOK,
       RunnerLocations, ScriptLocations, OutputAccounted, Least
  <1>9. CASE WaitScript
    BY <1>9 DEF WaitScript, menuVars, outputVars, boundVars, TypeOK,
       RunnerLocations, ScriptLocations, OutputAccounted, Least
  <1>10. CASE CleanUp
    <2>1. Absent \in SharedMenu
      BY AbsentType
    <2>2. shm' \in SharedMenu
      BY <1>10, <2>1 DEF CleanUp, TypeOK
    <2>3. mapped' \in BOOLEAN
      BY <1>10 DEF CleanUp, TypeOK
    <2> QED
      BY <1>10, <2>2, <2>3 DEF CleanUp, boundVars, TypeOK, RunnerLocations,
         ScriptLocations
  <1>11. CASE Echo
    BY <1>11 DEF Echo, menuVars, boundVars, TypeOK, RunnerLocations,
       ScriptLocations, OutputAccounted, Least
  <1>12. CASE ScriptExits
    BY <1>12 DEF ScriptExits, menuVars, outputVars, boundVars, TypeOK,
       RunnerLocations, ScriptLocations, OutputAccounted, Least
  <1>13. CASE ImenuRefused
    BY <1>13 DEF ImenuRefused, menuVars, outputVars, boundVars, TypeOK,
       RunnerLocations, ScriptLocations, OutputAccounted, Least
  <1>14. CASE ImenuOpens
    BY <1>14 DEF ImenuOpens, menuVars, outputVars, boundVars, TypeOK,
       RunnerLocations, ScriptLocations, OutputAccounted, Least
  <1>15. CASE ImenuFills
    <2>1. \A i \in Indices : i < Filled => <<menus, i + 1>> \in Items
      <3> SUFFICES ASSUME NEW i \in Indices, i < Filled
                   PROVE  <<menus, i + 1>> \in Items
        OBVIOUS
      <3>1. i + 1 \in 1..MaxArgs /\ menus \in 0..MaxMenus
        BY DEF TypeOK, Indices, Filled, Least
      <3> QED
        BY <3>1 DEF Items
    <2>2. shm' \in SharedMenu
      BY <1>15, <2>1 DEF ImenuFills, TypeOK, SharedMenu
    <2> QED
      BY <1>15, <2>2 DEF ImenuFills, outputVars, boundVars, TypeOK, ScriptLocations
  <1>16. CASE ImenuTerminates
    <2>1. shm' \in SharedMenu
      BY <1>16 DEF ImenuTerminates, TypeOK, SharedMenu, Items
    <2> QED
      BY <1>16, <2>1 DEF ImenuTerminates, outputVars, boundVars, TypeOK,
         ScriptLocations
  <1>17. CASE ImenuResets
    <2>1. shm' \in SharedMenu
      BY <1>17 DEF ImenuResets, TypeOK, SharedMenu
    <2> QED
      BY <1>17, <2>1 DEF ImenuResets, outputVars, boundVars, TypeOK,
         RunnerLocations, ScriptLocations
  <1>18. CASE ImenuTriggers
    <2>1. shm' \in SharedMenu
      BY <1>18 DEF ImenuTriggers, TypeOK, SharedMenu
    <2> QED
      BY <1>18, <2>1 DEF ImenuTriggers, outputVars, boundVars, TypeOK,
         RunnerLocations, ScriptLocations
  <1>19. CASE ImenuReturns
    <2>1. response' \in Nat
      BY <1>19 DEF ImenuReturns, TypeOK, SharedMenu
    <2> QED
      BY <1>19, <2>1 DEF ImenuReturns, outputVars, boundVars, TypeOK,
         ScriptLocations
  <1>20. ASSUME NEW ui \in BOOLEAN, RunScript(ui) PROVE TypeOK'
    <2>1. NoItem \in Items /\ 0 \in Indices
      BY NoItemType
    <2>2. Opened(shm) \in SharedMenu
      <3>1. 0 \in 0..MaxMenus
        OBVIOUS
      <3>2. shm.items \in [Indices -> Items]
        BY DEF TypeOK, SharedMenu
      <3> DEFINE entries == [shm.items EXCEPT ![0] = NoItem]
      <3>3. entries \in [Indices -> Items]
        BY <2>1, <3>2
      <3>4. Opened(shm) = [exists |-> TRUE, in_trigger |-> FALSE, out_trigger |-> 0,
                           header |-> 0, items |-> entries]
        BY DEF Opened
      <3> HIDE DEF entries
      <3> QED
        BY <3>1, <3>3, <3>4 DEF SharedMenu
    <2>3. [shm EXCEPT !.exists = TRUE] \in SharedMenu
      BY DEF TypeOK, SharedMenu
    <2>4. shm' \in SharedMenu
      BY <1>20, <2>2, <2>3 DEF RunScript, TypeOK
    <2>5. mapped' \in BOOLEAN /\ toUI' \in BOOLEAN
      BY <1>20 DEF RunScript, TypeOK
    <2>6. rpc' \in RunnerLocations /\ sh' \in ScriptLocations
      BY <1>20 DEF RunScript, RunnerLocations, ScriptLocations
    <2>7. /\ pipe' = 0 /\ printed' = 0 /\ written' = 0 /\ drained' = 0 /\ asked' = 0
          /\ runs' = runs + 1 /\ runs < MaxRuns
          /\ UNCHANGED <<shown, chosen, response, menus, args>>
      BY <1>20 DEF RunScript
    <2> QED
      BY <2>4, <2>5, <2>6, <2>7 DEF TypeOK
  <1>21. ASSUME NEW index \in Indices, ShowInteractiveMenu(index) PROVE TypeOK'
    BY <1>21 DEF ShowInteractiveMenu, outputVars, boundVars, ItemNumber,
       Indices, TypeOK, RunnerLocations, ScriptLocations, OutputAccounted, Least
  <1>22. ASSUME NEW n \in 0..MaxArgs, ImenuStarts(n) PROVE TypeOK'
    BY <1>22 DEF ImenuStarts, menuVars, outputVars, TypeOK, ScriptLocations
  <1>23. CASE UNCHANGED vars
    BY <1>23 DEF vars, menuVars, outputVars, boundVars, TypeOK, RunnerLocations,
       ScriptLocations, OutputAccounted, Least
  <1> QED
    BY <1>1, <1>2, <1>3, <1>4, <1>5, <1>6, <1>7, <1>8, <1>9, <1>10, <1>11,
       <1>12, <1>13, <1>14, <1>15, <1>16, <1>17, <1>18, <1>19, <1>20, <1>21,
       <1>22, <1>23 DEF Next, Runner, User, Script, Imenu

LEMMA StepHandshake == TypeOK /\ HandshakeOrdered /\ [Next]_vars => HandshakeOrdered'
  <1> SUFFICES ASSUME TypeOK, HandshakeOrdered, [Next]_vars PROVE HandshakeOrdered'
    OBVIOUS
  <1>1. CASE Poll
    BY <1>1 DEF Poll, outputVars, boundVars, TypeOK, SharedMenu, HandshakeOrdered
  <1>2. CASE PrintRest
    BY <1>2 DEF PrintRest, ReadOnce, menuVars, boundVars, TypeOK, SharedMenu,
       HandshakeOrdered
  <1>3. CASE CollectItems
    BY <1>3 DEF CollectItems, outputVars, boundVars, TypeOK, SharedMenu,
       HandshakeOrdered
  <1>4. CASE ClearMenu
    BY <1>4 DEF ClearMenu, outputVars, boundVars, TypeOK, SharedMenu,
       HandshakeOrdered
  <1>5. CASE Answer
    BY <1>5 DEF Answer, outputVars, boundVars, TypeOK, SharedMenu, HandshakeOrdered
  <1>6. CASE Read
    BY <1>6 DEF Read, ReadOnce, menuVars, boundVars, TypeOK, SharedMenu,
       HandshakeOrdered
  <1>7. CASE WaitNoHang
    BY <1>7 DEF WaitNoHang, menuVars, outputVars, boundVars, TypeOK, SharedMenu,
       HandshakeOrdered
  <1>8. CASE LastRead
    BY <1>8 DEF LastRead, ReadOnce, menuVars, boundVars, TypeOK, SharedMenu,
       HandshakeOrdered
  <1>9. CASE WaitScript
    BY <1>9 DEF WaitScript, menuVars, outputVars, boundVars, TypeOK, SharedMenu,
       HandshakeOrdered
  <1>10. CASE CleanUp
    BY <1>10 DEF CleanUp, Absent, Zeroed, boundVars, TypeOK, SharedMenu,
       HandshakeOrdered
  <1>11. CASE Echo
    BY <1>11 DEF Echo, menuVars, boundVars, TypeOK, SharedMenu, HandshakeOrdered
  <1>12. CASE ScriptExits
    BY <1>12 DEF ScriptExits, menuVars, outputVars, boundVars, TypeOK,
       SharedMenu, HandshakeOrdered
  <1>13. CASE ImenuRefused
    BY <1>13 DEF ImenuRefused, menuVars, outputVars, boundVars, TypeOK,
       SharedMenu, HandshakeOrdered
  <1>14. CASE ImenuOpens
    BY <1>14 DEF ImenuOpens, menuVars, outputVars, boundVars, TypeOK,
       SharedMenu, HandshakeOrdered
  <1>15. CASE ImenuFills
    BY <1>15 DEF ImenuFills, outputVars, boundVars, TypeOK, SharedMenu,
       HandshakeOrdered
  <1>16. CASE ImenuTerminates
    BY <1>16 DEF ImenuTerminates, outputVars, boundVars, TypeOK, SharedMenu,
       HandshakeOrdered
  <1>17. CASE ImenuResets
    BY <1>17 DEF ImenuResets, outputVars, boundVars, TypeOK, SharedMenu,
       HandshakeOrdered
  <1>18. CASE ImenuTriggers
    BY <1>18 DEF ImenuTriggers, outputVars, boundVars, TypeOK, SharedMenu,
       HandshakeOrdered
  <1>19. CASE ImenuReturns
    BY <1>19 DEF ImenuReturns, outputVars, boundVars, TypeOK, SharedMenu,
       HandshakeOrdered
  <1>20. ASSUME NEW ui \in BOOLEAN, RunScript(ui) PROVE HandshakeOrdered'
    BY <1>20 DEF RunScript, menuVars, outputVars, boundVars, Opened, TypeOK,
       SharedMenu, HandshakeOrdered
  <1>21. ASSUME NEW index \in Indices, ShowInteractiveMenu(index) PROVE
     HandshakeOrdered'
    BY <1>21 DEF ShowInteractiveMenu, outputVars, boundVars, ItemNumber,
       Indices, TypeOK, SharedMenu, HandshakeOrdered
  <1>22. ASSUME NEW n \in 0..MaxArgs, ImenuStarts(n) PROVE HandshakeOrdered'
    BY <1>22 DEF ImenuStarts, menuVars, outputVars, TypeOK, SharedMenu,
       HandshakeOrdered
  <1>23. CASE UNCHANGED vars
    BY <1>23 DEF vars, menuVars, outputVars, boundVars, TypeOK, SharedMenu,
       HandshakeOrdered
  <1> QED
    BY <1>1, <1>2, <1>3, <1>4, <1>5, <1>6, <1>7, <1>8, <1>9, <1>10, <1>11,
       <1>12, <1>13, <1>14, <1>15, <1>16, <1>17, <1>18, <1>19, <1>20, <1>21,
       <1>22, <1>23 DEF Next, Runner, User, Script, Imenu

LEMMA StepAccounted ==
    TypeOK /\ HandshakeOrdered /\ OutputAccounted /\ [Next]_vars => OutputAccounted'
  <1> SUFFICES ASSUME TypeOK, HandshakeOrdered, OutputAccounted, [Next]_vars
               PROVE  OutputAccounted'
    OBVIOUS
  <1> USE SizesAssumption, BoundsAssumption
  <1>1. CASE Poll
    BY <1>1 DEF Poll, outputVars, boundVars, TypeOK, OutputAccounted, Least
  <1>2. CASE PrintRest
    BY <1>2 DEF PrintRest, ReadOnce, menuVars, boundVars, TypeOK,
       OutputAccounted, Least
  <1>3. CASE CollectItems
    BY <1>3 DEF CollectItems, outputVars, boundVars, TypeOK, OutputAccounted, Least
  <1>4. CASE ClearMenu
    BY <1>4 DEF ClearMenu, outputVars, boundVars, TypeOK, OutputAccounted, Least
  <1>5. CASE Answer
    BY <1>5 DEF Answer, outputVars, boundVars, TypeOK, OutputAccounted, Least
  <1>6. CASE Read
    BY <1>6 DEF Read, ReadOnce, menuVars, boundVars, TypeOK, OutputAccounted, Least
  <1>7. CASE WaitNoHang
    BY <1>7 DEF WaitNoHang, menuVars, outputVars, boundVars, TypeOK,
       OutputAccounted, Least
  <1>8. CASE LastRead
    BY <1>8 DEF LastRead, ReadOnce, menuVars, boundVars, TypeOK,
       OutputAccounted, Least
  <1>9. CASE WaitScript
    BY <1>9 DEF WaitScript, menuVars, outputVars, boundVars, TypeOK,
       OutputAccounted, Least
  <1>10. CASE CleanUp
    <2>1. /\ rpc = "cleanup" /\ rpc' = "idle" /\ pipe' = 0
          /\ UNCHANGED <<printed, written, drained, toUI>>
      BY <1>10 DEF CleanUp
    <2> QED
      BY <2>1 DEF TypeOK, OutputAccounted, Least
  <1>11. CASE Echo
    BY <1>11 DEF Echo, menuVars, boundVars, TypeOK, HandshakeOrdered,
       OutputAccounted, Least
  <1>12. CASE ScriptExits
    BY <1>12 DEF ScriptExits, menuVars, outputVars, boundVars, TypeOK,
       OutputAccounted, Least
  <1>13. CASE ImenuRefused
    BY <1>13 DEF ImenuRefused, menuVars, outputVars, boundVars, TypeOK,
       OutputAccounted, Least
  <1>14. CASE ImenuOpens
    BY <1>14 DEF ImenuOpens, menuVars, outputVars, boundVars, TypeOK,
       OutputAccounted, Least
  <1>15. CASE ImenuFills
    BY <1>15 DEF ImenuFills, outputVars, boundVars, TypeOK, OutputAccounted, Least
  <1>16. CASE ImenuTerminates
    BY <1>16 DEF ImenuTerminates, outputVars, boundVars, TypeOK,
       OutputAccounted, Least
  <1>17. CASE ImenuResets
    BY <1>17 DEF ImenuResets, outputVars, boundVars, TypeOK, OutputAccounted, Least
  <1>18. CASE ImenuTriggers
    BY <1>18 DEF ImenuTriggers, outputVars, boundVars, TypeOK, OutputAccounted,
       Least
  <1>19. CASE ImenuReturns
    BY <1>19 DEF ImenuReturns, outputVars, boundVars, TypeOK, OutputAccounted, Least
  <1>20. ASSUME NEW ui \in BOOLEAN, RunScript(ui) PROVE OutputAccounted'
    BY <1>20 DEF RunScript, menuVars, outputVars, boundVars, Opened, TypeOK,
       OutputAccounted, Least
  <1>21. ASSUME NEW index \in Indices, ShowInteractiveMenu(index) PROVE
     OutputAccounted'
    BY <1>21 DEF ShowInteractiveMenu, outputVars, boundVars, ItemNumber,
       Indices, TypeOK, OutputAccounted, Least
  <1>22. ASSUME NEW n \in 0..MaxArgs, ImenuStarts(n) PROVE OutputAccounted'
    BY <1>22 DEF ImenuStarts, menuVars, outputVars, TypeOK, OutputAccounted, Least
  <1>23. CASE UNCHANGED vars
    BY <1>23 DEF vars, menuVars, outputVars, boundVars, TypeOK, OutputAccounted,
       Least
  <1> QED
    BY <1>1, <1>2, <1>3, <1>4, <1>5, <1>6, <1>7, <1>8, <1>9, <1>10, <1>11,
       <1>12, <1>13, <1>14, <1>15, <1>16, <1>17, <1>18, <1>19, <1>20, <1>21,
       <1>22, <1>23 DEF Next, Runner, User, Script, Imenu

\* The handshake maps every step to a step of the dialogue or to a stutter.
LEMMA StepDialog ==
    TypeOK /\ HandshakeOrdered /\ [Next]_vars => [Dialog!Next]_(Dialog!dialog)
  <1> SUFFICES ASSUME TypeOK, HandshakeOrdered, [Next]_vars
               PROVE  [Dialog!Next]_(Dialog!dialog)
    OBVIOUS
  <1> USE SizesAssumption DEF Dialog!Next, Dialog!dialog
  <1>1. CASE Poll
    BY <1>1 DEF Poll, outputVars, boundVars, TypeOK, SharedMenu,
       HandshakeOrdered, phase, answer
  <1>2. CASE PrintRest
    BY <1>2 DEF PrintRest, ReadOnce, menuVars, boundVars, TypeOK, SharedMenu,
       HandshakeOrdered, phase, answer
  <1>3. CASE CollectItems
    <2>1. Dialog!Display
      BY <1>3 DEF Dialog!Display, CollectItems, HandshakeOrdered, phase, answer
    <2> QED
      BY <2>1
  <1>4. CASE ClearMenu
    BY <1>4 DEF ClearMenu, outputVars, boundVars, TypeOK, SharedMenu,
       HandshakeOrdered, phase, answer
  <1>5. CASE Answer
    BY <1>5 DEF Answer, outputVars, boundVars, TypeOK, SharedMenu,
       HandshakeOrdered, phase, answer
  <1>6. CASE Read
    BY <1>6 DEF Read, ReadOnce, menuVars, boundVars, TypeOK, SharedMenu,
       HandshakeOrdered, phase, answer
  <1>7. CASE WaitNoHang
    BY <1>7 DEF WaitNoHang, menuVars, outputVars, boundVars, TypeOK, SharedMenu,
       HandshakeOrdered, phase, answer
  <1>8. CASE LastRead
    BY <1>8 DEF LastRead, ReadOnce, menuVars, boundVars, TypeOK, SharedMenu,
       HandshakeOrdered, phase, answer
  <1>9. CASE WaitScript
    BY <1>9 DEF WaitScript, menuVars, outputVars, boundVars, TypeOK, SharedMenu,
       HandshakeOrdered, phase, answer
  <1>10. CASE CleanUp
    BY <1>10 DEF CleanUp, Absent, Zeroed, boundVars, TypeOK, SharedMenu,
       HandshakeOrdered, phase, answer
  <1>11. CASE Echo
    BY <1>11 DEF Echo, menuVars, boundVars, TypeOK, SharedMenu,
       HandshakeOrdered, phase, answer
  <1>12. CASE ScriptExits
    BY <1>12 DEF ScriptExits, menuVars, outputVars, boundVars, TypeOK,
       SharedMenu, HandshakeOrdered, phase, answer
  <1>13. CASE ImenuRefused
    BY <1>13 DEF ImenuRefused, menuVars, outputVars, boundVars, TypeOK,
       SharedMenu, HandshakeOrdered, phase, answer
  <1>14. CASE ImenuOpens
    BY <1>14 DEF ImenuOpens, menuVars, outputVars, boundVars, TypeOK,
       SharedMenu, HandshakeOrdered, phase, answer
  <1>15. CASE ImenuFills
    BY <1>15 DEF ImenuFills, outputVars, boundVars, TypeOK, SharedMenu,
       HandshakeOrdered, phase, answer
  <1>16. CASE ImenuTerminates
    BY <1>16 DEF ImenuTerminates, outputVars, boundVars, TypeOK, SharedMenu,
       HandshakeOrdered, phase, answer
  <1>17. CASE ImenuResets
    BY <1>17 DEF ImenuResets, outputVars, boundVars, TypeOK, SharedMenu,
       HandshakeOrdered, phase, answer
  <1>18. CASE ImenuTriggers
    <2>1. Dialog!Ask
      BY <1>18 DEF Dialog!Ask, ImenuTriggers, TypeOK, SharedMenu,
         HandshakeOrdered, phase, answer
    <2> QED
      BY <2>1
  <1>19. CASE ImenuReturns
    <2>1. Dialog!Deliver
      BY <1>19 DEF Dialog!Deliver, ImenuReturns, HandshakeOrdered, phase, answer
    <2> QED
      BY <2>1
  <1>20. ASSUME NEW ui \in BOOLEAN, RunScript(ui) PROVE
     [Dialog!Next]_(Dialog!dialog)
    BY <1>20 DEF RunScript, menuVars, outputVars, boundVars, Opened, TypeOK,
       SharedMenu, HandshakeOrdered, phase, answer
  <1>21. ASSUME NEW index \in Indices, ShowInteractiveMenu(index) PROVE
     [Dialog!Next]_(Dialog!dialog)
    <2>1. Dialog!Pick
      BY <1>21 DEF Dialog!Pick, ShowInteractiveMenu, ItemNumber, Indices,
         HandshakeOrdered, phase, answer
    <2> QED
      BY <2>1
  <1>22. ASSUME NEW n \in 0..MaxArgs, ImenuStarts(n) PROVE
     [Dialog!Next]_(Dialog!dialog)
    BY <1>22 DEF ImenuStarts, menuVars, outputVars, TypeOK, SharedMenu,
       HandshakeOrdered, phase, answer
  <1>23. CASE UNCHANGED vars
    BY <1>23 DEF vars, menuVars, outputVars, boundVars, TypeOK, SharedMenu,
       HandshakeOrdered, phase, answer
  <1> QED
    BY <1>1, <1>2, <1>3, <1>4, <1>5, <1>6, <1>7, <1>8, <1>9, <1>10, <1>11,
       <1>12, <1>13, <1>14, <1>15, <1>16, <1>17, <1>18, <1>19, <1>20, <1>21,
       <1>22, <1>23 DEF Next, Runner, User, Script, Imenu

LEMMA InitInvariants == Init => TypeOK /\ HandshakeOrdered /\ OutputAccounted
  <1> SUFFICES ASSUME Init PROVE TypeOK /\ HandshakeOrdered /\ OutputAccounted
    OBVIOUS
  <1> USE SizesAssumption, BoundsAssumption
  <1>1. shown \in Seq(Items) /\ Len(shown) <= NumItems
    BY DEF Init
  <1>2. TypeOK
    <2>1. shm \in SharedMenu
      BY AbsentType DEF Init
    <2>2. /\ mapped \in BOOLEAN /\ toUI \in BOOLEAN
          /\ rpc \in RunnerLocations /\ sh \in ScriptLocations
      BY DEF Init, RunnerLocations, ScriptLocations
    <2>3. /\ chosen \in 0..NumItems /\ pipe \in 0..PipeSize /\ printed \in 0..MaxOutput
          /\ args \in 0..MaxArgs /\ response \in Nat /\ written \in 0..MaxOutput
          /\ runs \in 0..MaxRuns /\ menus \in 0..MaxMenus /\ asked \in Nat
          /\ drained \in 0..MaxOutput
      BY DEF Init
    <2> QED
      BY <1>1, <2>1, <2>2, <2>3 DEF TypeOK
  <1>3. HandshakeOrdered
    BY DEF Init, HandshakeOrdered, Absent, Zeroed
  <1>4. OutputAccounted
    BY DEF Init, OutputAccounted, Least
  <1> QED
    BY <1>2, <1>3, <1>4

\* The three invariants hold together: a script that still runs rules out the
\* end of the loop (HandshakeOrdered), which OutputAccounted needs, and that in
\* turn bounds what has been printed, which TypeOK needs.
THEOREM Invariants == Spec => [](TypeOK /\ HandshakeOrdered /\ OutputAccounted)
  <1>1. Init => TypeOK /\ HandshakeOrdered /\ OutputAccounted
    BY InitInvariants
  <1>2. /\ TypeOK /\ HandshakeOrdered /\ OutputAccounted
        /\ [Next]_vars
        => (TypeOK /\ HandshakeOrdered /\ OutputAccounted)'
    BY StepType, StepHandshake, StepAccounted
  <1> QED
    BY <1>1, <1>2, PTL DEF Spec

\* run_shell_script keeps every variable in its range, whatever the sizes: in
\* particular the menu it collects fits the array of entries.
THEOREM TypeCorrect == Spec => []TypeOK
  BY Invariants, PTL

\* The pipe and the shared page are in the order the polling loop of
\* run_shell_script relies on, for every size and every number of runs.
THEOREM LoopStaysOrdered == Spec => []LoopOrdered
  BY Invariants, PTL DEF LoopOrdered

\* However the script's writes and its exit fall between the steps of the
\* polling loop, no more is lost than what exceeds one buffer after the last
\* empty read.
THEOREM TailIsKept == Spec => []TailKept
  <1>1. TypeOK /\ OutputAccounted => TailKept
    BY DEF OutputAccounted, TailKept
  <1> QED
    BY <1>1, Invariants, PTL

\* The two triggers of run_shell_script and imenu implement the dialogue of
\* MenuDialog, for menus of any length.
THEOREM DialogImplemented == Spec => ImplementsDialog
  <1>1. Init => Dialog!Init
    BY DEF Init, Dialog!Init, phase, answer
  <1>2. TypeOK /\ HandshakeOrdered /\ [Next]_vars => [Dialog!Next]_(Dialog!dialog)
    BY StepDialog
  <1> QED
    BY <1>1, <1>2, Invariants, PTL DEF Spec, ImplementsDialog, Dialog!Spec
-----------------------------------------------------------------------------
(* What the user is offered                                                *)

LEMMA FilledType ==
    ASSUME TypeOK
    PROVE  Filled \in Nat /\ Filled \in Indices /\ Filled <= args
  BY SizesAssumption, BoundsAssumption DEF TypeOK, Filled, Least, Indices

LEMMA AbsentNode ==
    /\ Absent.exists = FALSE
    /\ Absent.in_trigger = FALSE
    /\ \A i \in Indices : Absent.items[i] = NoItem
  BY DEF Absent, Zeroed

\* The collecting loop of run_shell_script stops at or after the end of the
\* entries that imenu stored, and exactly there when nothing follows them.
LEMMA ListedOffered ==
    ASSUME TypeOK, Offered
    PROVE  /\ Len(Listed(shm.items)) >= Filled
           /\ \A i \in 1..Filled : Listed(shm.items)[i] = <<menus, i>>
           /\ EmptyFrom(Filled) => Len(Listed(shm.items)) = Filled
  <1> USE SizesAssumption
  <1> DEFINE items == shm.items
             IsEnd(n) == /\ \A j \in Indices : j < n => items[j] # NoItem
                         /\ n \in Indices => items[n] = NoItem
             n0 == CHOOSE n \in 0..NumItems : IsEnd(n)
  <1>1. items \in [Indices -> Items]
    BY DEF TypeOK, SharedMenu
  <1>2. n0 \in 0..NumItems /\ IsEnd(n0)
    BY <1>1, EndExists
  <1>3. Listed(items) = [i \in 1..n0 |-> items[i - 1]]
    BY DEF Listed
  <1>4. Filled \in Nat /\ Filled \in Indices
    BY FilledType
  <1>5. \A i \in Indices : i < Filled => items[i] = <<menus, i + 1>>
    BY DEF Offered
  <1>6. \A i \in Indices : i < Filled => items[i] # NoItem
    <2> SUFFICES ASSUME NEW i \in Indices, i < Filled PROVE items[i] # NoItem
      OBVIOUS
    <2>1. items[i] = <<menus, i + 1>> /\ i + 1 # 0
      BY <1>5 DEF Indices
    <2> QED
      BY <2>1 DEF NoItem
  <1>7. EmptyFrom(Filled) => items[Filled] = NoItem
    BY <1>4 DEF EmptyFrom, Indices
  <1> HIDE DEF n0
  <1>8. n0 >= Filled
    BY <1>2, <1>4, <1>6 DEF Indices
  <1>9. EmptyFrom(Filled) => n0 = Filled
    BY <1>2, <1>4, <1>7, <1>8
  <1>10. Len(Listed(items)) = n0
    BY <1>2, <1>3
  <1>11. \A i \in 1..Filled : Listed(items)[i] = <<menus, i>>
    <2> SUFFICES ASSUME NEW i \in 1..Filled PROVE Listed(items)[i] = <<menus, i>>
      OBVIOUS
    <2>1. i \in 1..n0 /\ i - 1 \in Indices /\ i - 1 < Filled /\ (i - 1) + 1 = i
      BY <1>2, <1>4, <1>8 DEF Indices
    <2> QED
      BY <2>1, <1>3, <1>5
  <1> QED
    BY <1>8, <1>9, <1>10, <1>11

LEMMA StepEntries ==
    TypeOK /\ HandshakeOrdered /\ EntriesInPlace /\ [Next]_vars => EntriesInPlace'
  <1> SUFFICES ASSUME TypeOK, HandshakeOrdered, EntriesInPlace, [Next]_vars
               PROVE  EntriesInPlace'
    OBVIOUS
  <1>1. CASE Poll
    BY <1>1, AbsentNode DEF Poll, outputVars, boundVars, TypeOK, SharedMenu, HandshakeOrdered,
       EntriesInPlace, Offered, EmptyFrom, Filled
  <1>2. CASE PrintRest
    BY <1>2, AbsentNode DEF PrintRest, ReadOnce, menuVars, boundVars, TypeOK, SharedMenu, HandshakeOrdered,
       EntriesInPlace, Offered, EmptyFrom, Filled
  <1>3. CASE CollectItems
    BY <1>3, AbsentNode DEF CollectItems, outputVars, boundVars, TypeOK, SharedMenu, HandshakeOrdered,
       EntriesInPlace, Offered, EmptyFrom, Filled
  <1>4. CASE ClearMenu
    <2>1. 0 \in Indices
      BY NoItemType
    <2>2. \A i \in Indices : shm'.items[i] = IF i = 0 THEN NoItem ELSE shm.items[i]
      BY <1>4, <2>1 DEF ClearMenu, TypeOK, SharedMenu
    <2>3. /\ rpc = "clear" /\ rpc' = "answer" /\ shm'.exists = shm.exists
          /\ shm'.in_trigger = shm.in_trigger
          /\ UNCHANGED <<menus, asked, toUI, sh, args>>
      BY <1>4 DEF ClearMenu, boundVars, TypeOK, SharedMenu
    <2>4. toUI /\ sh = "spin" /\ ~shm.in_trigger
      BY <2>3, AbsentNode DEF EntriesInPlace, HandshakeOrdered
    <2> QED
      BY <2>2, <2>3, <2>4 DEF EntriesInPlace, EmptyFrom, Filled
  <1>5. CASE Answer
    BY <1>5, AbsentNode DEF Answer, outputVars, boundVars, TypeOK, SharedMenu, HandshakeOrdered,
       EntriesInPlace, Offered, EmptyFrom, Filled
  <1>6. CASE Read
    BY <1>6, AbsentNode DEF Read, ReadOnce, menuVars, boundVars, TypeOK, SharedMenu, HandshakeOrdered,
       EntriesInPlace, Offered, EmptyFrom, Filled
  <1>7. CASE WaitNoHang
    BY <1>7, AbsentNode DEF WaitNoHang, menuVars, boundVars, TypeOK, SharedMenu, HandshakeOrdered,
       EntriesInPlace, Offered, EmptyFrom, Filled
  <1>8. CASE LastRead
    BY <1>8, AbsentNode DEF LastRead, ReadOnce, menuVars, boundVars, TypeOK, SharedMenu, HandshakeOrdered,
       EntriesInPlace, Offered, EmptyFrom, Filled
  <1>9. CASE WaitScript
    BY <1>9, AbsentNode DEF WaitScript, menuVars, boundVars, TypeOK, SharedMenu, HandshakeOrdered,
       EntriesInPlace, Offered, EmptyFrom, Filled
  <1>10. CASE CleanUp
    <2>1. shm' = Absent
      BY <1>10 DEF CleanUp, EntriesInPlace
    <2>2. ~shm'.in_trigger /\ EmptyFrom(0)' /\ EmptyFrom(Filled)'
      BY <2>1 DEF EmptyFrom, Absent, Zeroed
    <2>3. rpc' = "idle" /\ sh' = "none"
      BY <1>10 DEF CleanUp
    <2> QED
      BY <2>1, <2>2, <2>3 DEF EntriesInPlace
  <1>11. CASE Echo
    BY <1>11, AbsentNode DEF Echo, menuVars, boundVars, TypeOK, SharedMenu, HandshakeOrdered,
       EntriesInPlace, Offered, EmptyFrom, Filled
  <1>12. CASE ScriptExits
    BY <1>12, AbsentNode DEF ScriptExits, menuVars, boundVars, TypeOK, SharedMenu, HandshakeOrdered,
       EntriesInPlace, Offered, EmptyFrom, Filled
  <1>13. CASE ImenuRefused
    BY <1>13, AbsentNode DEF ImenuRefused, menuVars, boundVars, TypeOK, SharedMenu, HandshakeOrdered,
       EntriesInPlace, Offered, EmptyFrom, Filled
  <1>14. CASE ImenuOpens
    BY <1>14, AbsentNode DEF ImenuOpens, menuVars, boundVars, TypeOK, SharedMenu, HandshakeOrdered,
       EntriesInPlace, Offered, EmptyFrom, Filled
  <1>15. CASE ImenuFills
    <2>1. \A i \in Indices :
             shm'.items[i] = IF i < Filled THEN <<menus, i + 1>> ELSE shm.items[i]
      BY <1>15 DEF ImenuFills, TypeOK, SharedMenu
    <2>2. /\ sh = "fill" /\ sh' = "terminate" /\ shm'.exists = shm.exists
          /\ shm'.in_trigger = shm.in_trigger
          /\ UNCHANGED <<menus, asked, toUI, rpc, args>>
      BY <1>15 DEF ImenuFills, boundVars, TypeOK, SharedMenu
    <2>3. rpc # "idle" /\ toUI /\ asked # 0
      BY <2>2, AbsentNode DEF EntriesInPlace, HandshakeOrdered
    <2>4. Filled' = Filled /\ Filled \in Nat
      BY <2>2, FilledType DEF Filled
    <2>5. Offered'
      BY <2>1, <2>2, <2>4 DEF Offered
    <2>6. ASSUME asked = 1 PROVE EmptyFrom(Filled)'
      <3>1. \A i \in Indices : i >= Filled => shm.items[i] = NoItem
        BY <2>6 DEF EntriesInPlace, EmptyFrom
      <3>2. ASSUME NEW i \in Indices, i >= Filled PROVE shm'.items[i] = NoItem
        <4>1. ~(i < Filled)
          BY <2>4, <3>2, SizesAssumption DEF Indices
        <4> QED
          BY <2>1, <3>1, <3>2, <4>1
      <3> QED
        BY <2>4, <3>2 DEF EmptyFrom
    <2> QED
      BY <2>2, <2>3, <2>5, <2>6 DEF EntriesInPlace
  <1>16. CASE ImenuTerminates
    <2>1. \A i \in Indices :
             shm'.items[i] = IF i = Terminator THEN NoItem ELSE shm.items[i]
      BY <1>16 DEF ImenuTerminates, TypeOK, SharedMenu
    <2>2. /\ sh = "terminate" /\ sh' = "reset" /\ shm'.exists = shm.exists
          /\ shm'.in_trigger = shm.in_trigger
          /\ UNCHANGED <<menus, asked, toUI, rpc, args>>
      BY <1>16 DEF ImenuTerminates, boundVars, TypeOK, SharedMenu
    <2>3. rpc # "idle" /\ toUI
      BY <2>2, AbsentNode DEF EntriesInPlace, HandshakeOrdered
    <2>4. Filled' = Filled /\ Filled \in Nat
      BY <2>2, FilledType DEF Filled
    <2>5. Offered'
      BY <2>1, <2>2, <2>4 DEF EntriesInPlace, Offered, Terminator, Indices
    <2>6. /\ asked = 0 => EmptyFrom(0)'
          /\ asked = 1 => EmptyFrom(Filled)'
      BY <2>1, <2>4 DEF EntriesInPlace, EmptyFrom
    <2> QED
      BY <2>2, <2>3, <2>5, <2>6 DEF EntriesInPlace
  <1>17. CASE ImenuResets
    BY <1>17, AbsentNode DEF ImenuResets, boundVars, TypeOK, SharedMenu, HandshakeOrdered,
       EntriesInPlace, Offered, EmptyFrom, Filled
  <1>18. CASE ImenuTriggers
    BY <1>18, AbsentNode DEF ImenuTriggers, boundVars, TypeOK, SharedMenu, HandshakeOrdered,
       EntriesInPlace, Offered, EmptyFrom, Filled
  <1>19. CASE ImenuReturns
    BY <1>19, AbsentNode DEF ImenuReturns, boundVars, TypeOK, SharedMenu, HandshakeOrdered,
       EntriesInPlace, Offered, EmptyFrom, Filled
  <1>20. ASSUME NEW ui \in BOOLEAN, RunScript(ui) PROVE EntriesInPlace'
    <2>1. shm = Absent /\ rpc = "idle" /\ asked' = 0 /\ rpc' \in {"poll", "waitpid"}
          /\ sh' \in {"run", "exited"} /\ toUI' = ui
      BY <1>20 DEF RunScript, EntriesInPlace
    <2>2. shm' \in {Opened(Absent), [Absent EXCEPT !.exists = TRUE], Absent}
      BY <1>20, <2>1 DEF RunScript
    <2>3. ~ui => shm' = Absent
      BY <1>20, <2>1 DEF RunScript
    <2>4. ASSUME NEW s \in {Opened(Absent), [Absent EXCEPT !.exists = TRUE], Absent}
          PROVE  ~s.in_trigger /\ \A i \in Indices : s.items[i] = NoItem
      <3>1. CASE s = Opened(Absent)
        <4>1. Absent.items = [i \in Indices |-> NoItem]
          BY DEF Absent, Zeroed
        <4>2. s.items = [Absent.items EXCEPT ![0] = NoItem] /\ ~s.in_trigger
          BY <3>1 DEF Opened
        <4> QED
          BY <4>1, <4>2
      <3>2. CASE s # Opened(Absent)
        BY <3>2 DEF Absent, Zeroed
      <3> QED
        BY <3>1, <3>2
    <2>5. ~shm'.in_trigger /\ EmptyFrom(0)'
      BY <2>2, <2>4 DEF EmptyFrom
    <2> QED
      BY <2>1, <2>3, <2>5 DEF EntriesInPlace
  <1>21. ASSUME NEW index \in Indices, ShowInteractiveMenu(index)
         PROVE  EntriesInPlace'
    BY <1>21 DEF ShowInteractiveMenu, boundVars, EntriesInPlace, Offered, EmptyFrom,
       Filled
  <1>22. ASSUME NEW n \in 0..MaxArgs, ImenuStarts(n) PROVE EntriesInPlace'
    <2>1. /\ sh = "run" /\ sh' = "open" /\ asked' = asked + 1
          /\ UNCHANGED <<shm, rpc, toUI>>
      BY <1>22 DEF ImenuStarts, menuVars
    <2>2. ~shm.in_trigger /\ rpc \notin {"rest", "collect"}
      BY <2>1 DEF HandshakeOrdered
    <2>3. asked' > 0 /\ asked' # 0 /\ (asked' = 1 => asked = 0)
      BY <2>1 DEF TypeOK
    <2>4. Filled' \in Nat
      BY <1>22, SizesAssumption, BoundsAssumption DEF ImenuStarts, Filled, Least
    <2>5. ASSUME asked = 0 PROVE EmptyFrom(Filled)'
      <3>1. \A i \in Indices : i >= 0 => shm'.items[i] = NoItem
        BY <2>1, <2>5 DEF EntriesInPlace, EmptyFrom
      <3>2. \A i \in Indices : i >= Filled' => shm'.items[i] = NoItem
        BY <2>4, <3>1, SizesAssumption DEF Indices
      <3> QED
        BY <3>2 DEF EmptyFrom
    <2> QED
      BY <2>1, <2>2, <2>3, <2>5 DEF EntriesInPlace
  <1>23. CASE UNCHANGED vars
    BY <1>23 DEF vars, menuVars, boundVars, EntriesInPlace, Offered, EmptyFrom, Filled
  <1> QED
    BY <1>1, <1>2, <1>3, <1>4, <1>5, <1>6, <1>7, <1>8, <1>9, <1>10, <1>11,
       <1>12, <1>13, <1>14, <1>15, <1>16, <1>17, <1>18, <1>19, <1>20, <1>21,
       <1>22, <1>23 DEF Next, Runner, User, Script, Imenu

\* Collecting the entries establishes MenusExact; while the menu is displayed
\* imenu waits, so that no step touches what MenusExact speaks of.
LEMMA StepMenus ==
    TypeOK /\ HandshakeOrdered /\ EntriesInPlace /\ MenusExact /\ [Next]_vars
       => MenusExact'
  <1> SUFFICES ASSUME TypeOK, HandshakeOrdered, EntriesInPlace, MenusExact, [Next]_vars,
                      rpc' = "show"
               PROVE  /\ Len(shown') >= Filled'
                      /\ \A i \in 1..Filled' : shown'[i] = <<menus', i>>
                      /\ asked' = 1 => Len(shown') = Filled'
    BY DEF MenusExact, OwnItemsFirst, FirstMenuExact
  <1>1. CASE CollectItems
    <2>1. /\ rpc = "collect" /\ shown' = Listed(shm.items)
          /\ UNCHANGED <<menus, asked, args>>
      BY <1>1 DEF CollectItems, boundVars
    <2>2. Offered /\ (asked = 1 => EmptyFrom(Filled)) /\ Filled' = Filled
      BY <2>1 DEF EntriesInPlace, Filled
    <2> QED
      BY <2>1, <2>2, ListedOffered
  <1>2. ~CollectItems => rpc = "show" /\ UNCHANGED <<shown, menus, asked, args>>
    <2>1. rpc = "show" => sh = "spin"
      BY DEF HandshakeOrdered
    <2> QED
      BY <2>1 DEF Next, Runner, User, Script, Imenu, vars, menuVars, outputVars,
         boundVars, Poll, PrintRest, ClearMenu, Answer, Read, WaitNoHang, LastRead,
         WaitScript, CleanUp, Echo, ScriptExits, ImenuRefused, ImenuOpens, ImenuFills,
         ImenuTerminates, ImenuResets, ImenuTriggers, ImenuReturns, RunScript,
         ShowInteractiveMenu, ImenuStarts
  <1>3. CASE ~CollectItems
    <2>1. Filled' = Filled
      BY <1>2, <1>3 DEF Filled
    <2> QED
      BY <1>2, <1>3, <2>1 DEF MenusExact, OwnItemsFirst, FirstMenuExact
  <1> QED
    BY <1>1, <1>3

\* What a script asks is what the user sees, for menus and arrays of any
\* length: the entries of the imenu that waits are all offered, in their
\* places, and a script's first menu holds nothing else.
THEOREM MenusAreExact == Spec => []MenusExact
  <1>1. Init => EntriesInPlace /\ MenusExact
    BY AbsentNode DEF Init, EntriesInPlace, EmptyFrom, MenusExact, OwnItemsFirst,
       FirstMenuExact
  <1>2. /\ TypeOK /\ HandshakeOrdered /\ EntriesInPlace /\ MenusExact
        /\ [Next]_vars
        => (EntriesInPlace /\ MenusExact)'
    BY StepEntries, StepMenus
  <1> QED
    BY <1>1, <1>2, Invariants, PTL DEF Spec
====
