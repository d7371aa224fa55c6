--------------------------- MODULE MCScreenProofs ---------------------------
(***************************************************************************)
(* Proofs about the screen and the console: SessionRight for every length  *)
(* of the key queue and any number of keys, chunks and sessions, and       *)
(* NoStepBack for every number of scopes and properties.                   *)
(***************************************************************************)
EXTENDS MCScreen, TLAPS

KeyNames == Ses!Keys \cup {"up", "down"}

\* The keys handled, those waiting and those accepted are lists of keys.
KeysTyped == queue \in Seq(KeyNames) /\ accepted \in Seq(KeyNames) /\ handled \in Seq(KeyNames)

SessionInv == KeysTyped /\ Ses!KeysInOrder /\ Ses!ChunksCounted /\ Ses!ShellKnown

-----------------------------------------------------------------------------
\* Enqueue of input_thread (ui.c): a key goes to the end of the queue or, when
\* the queue is full, nowhere; the order of what was accepted is kept.
LEMMA EnqueueOrder ==
    ASSUME KeysTyped, Ses!KeysInOrder, NEW k \in KeyNames, Ses!Enqueue(k), UNCHANGED handled
    PROVE  KeysTyped' /\ Ses!KeysInOrder'
<1>1. CASE Len(queue) < QueueMax
  <2>1. queue' = Append(queue, k) /\ accepted' = Append(accepted, k)
    BY <1>1 DEF Ses!Enqueue
  <2>2. KeysTyped'
    BY <2>1 DEF KeysTyped
  <2>3. Append(handled \o queue, k) = handled \o Append(queue, k)
    BY DEF KeysTyped
  <2>4. Len(queue') <= QueueMax
    BY <1>1, <2>1, ScreenSizes DEF KeysTyped
  <2> QED BY <2>1, <2>2, <2>3, <2>4 DEF Ses!KeysInOrder
<1>2. CASE ~(Len(queue) < QueueMax)
  BY <1>2 DEF Ses!Enqueue, KeysTyped, Ses!KeysInOrder
<1> QED BY <1>1, <1>2

\* ui_get_key takes the oldest waiting key, so that what is handled continues
\* in the order of what was accepted.
LEMMA GetKeyOrder ==
    ASSUME KeysTyped, Ses!KeysInOrder, Ses!ui_get_key, UNCHANGED accepted
    PROVE  KeysTyped' /\ Ses!KeysInOrder'
<1>1. CASE queue = <<>>
  BY <1>1 DEF Ses!ui_get_key, KeysTyped, Ses!KeysInOrder
<1>2. CASE queue # <<>>
  <2>1. queue' = Tail(queue) /\ handled' = Append(handled, Head(queue))
    BY <1>2 DEF Ses!ui_get_key
  <2>2. Head(queue) \in KeyNames /\ Tail(queue) \in Seq(KeyNames)
    BY <1>2 DEF KeysTyped
  <2>3. KeysTyped'
    BY <2>1, <2>2 DEF KeysTyped
  <2>4. handled \o queue = Append(handled, Head(queue)) \o Tail(queue)
    BY <1>2, <2>2 DEF KeysTyped
  <2>5. Len(Tail(queue)) <= QueueMax
    BY <1>2, ScreenSizes DEF KeysTyped, Ses!KeysInOrder
  <2> QED BY <2>1, <2>3, <2>4, <2>5 DEF Ses!KeysInOrder
<1> QED BY <1>1, <1>2

-----------------------------------------------------------------------------
\* The keys, step by step: input_thread and ui_get_key are the only ones to
\* touch the queue of a running console, and opening one clears it.
LEMMA SessionKeys ==
    ASSUME SessionInv, Ses!Next
    PROVE  KeysTyped' /\ Ses!KeysInOrder'
<1> USE DEF SessionInv
<1>0. (UNCHANGED <<queue, accepted, handled>>) => KeysTyped' /\ Ses!KeysInOrder'
  BY DEF KeysTyped, Ses!KeysInOrder
<1>1. CASE Ses!InputEvent
  <2>1. UNCHANGED handled
    BY <1>1 DEF Ses!InputEvent
  <2>2. \/ UNCHANGED <<queue, accepted>>
        \/ \E k \in KeyNames : Ses!Enqueue(k)
    BY <1>1 DEF Ses!InputEvent, KeyNames
  <2> QED BY <1>0, <2>1, <2>2, EnqueueOrder
<1>2. CASE Ses!Open
  <2>1. CASE queue' = <<>> /\ accepted' = <<>> /\ handled' = <<>>
    BY <2>1, ScreenSizes DEF KeysTyped, Ses!KeysInOrder
  <2>2. CASE UNCHANGED <<queue, accepted, handled>>
    BY <2>2, <1>0
  <2> QED BY <1>2, <2>1, <2>2 DEF Ses!Open
<1>3. CASE Ses!EvaluateKey
  BY <1>3, GetKeyOrder DEF Ses!EvaluateKey
<1>4. CASE Ses!ForceQuit \/ Ses!ReadOutput \/ Ses!Poll \/ Ses!Reap \/ Ses!Close
           \/ Ses!ShellWrite \/ Ses!ShellExit
  BY <1>4, <1>0 DEF Ses!ForceQuit, Ses!ReadOutput, Ses!Poll, Ses!Reap, Ses!Close,
                    Ses!ShellWrite, Ses!ShellExit, Ses!keyvars
<1>5. CASE \E t \in DOMAIN cursors : Ses!CursorThread(t)
  BY <1>5, <1>0 DEF Ses!CursorThread, Ses!keyvars
<1> QED BY <1>1, <1>2, <1>3, <1>4, <1>5 DEF Ses!Next, Ses!RunConsole

\* The shell and its output, step by step: the loop of run_console reads before
\* it polls, and leaves only behind a waitpid that reaped the shell.
LEMMA SessionShell ==
    ASSUME SessionInv, Ses!Next
    PROVE  Ses!ChunksCounted' /\ Ses!ShellKnown'
<1> USE DEF SessionInv
<1>0. (UNCHANGED <<pc, sh, wrote, unread, seen, how>>) => Ses!ChunksCounted' /\ Ses!ShellKnown'
  BY DEF Ses!ChunksCounted, Ses!ShellKnown
<1>1. CASE Ses!InputEvent
  BY <1>0, <1>1 DEF Ses!InputEvent, Ses!runvars
<1>2. CASE Ses!Open
  BY <1>2 DEF Ses!Open, Ses!ChunksCounted, Ses!ShellKnown
<1>3. CASE Ses!ForceQuit
  BY <1>3 DEF Ses!ForceQuit, Ses!ChunksCounted, Ses!ShellKnown
<1>4. CASE Ses!ReadOutput
  BY <1>4 DEF Ses!ReadOutput, Ses!ChunksCounted, Ses!ShellKnown
<1>5. CASE Ses!Poll
  BY <1>5 DEF Ses!Poll, Ses!ChunksCounted, Ses!ShellKnown
<1>6. CASE Ses!Reap
  BY <1>6 DEF Ses!Reap, Ses!ChunksCounted, Ses!ShellKnown
<1>7. CASE Ses!EvaluateKey
  BY <1>7 DEF Ses!EvaluateKey, Ses!ChunksCounted, Ses!ShellKnown
<1>8. CASE Ses!Close
  BY <1>8 DEF Ses!Close, Ses!ChunksCounted, Ses!ShellKnown
<1>9. CASE Ses!ShellWrite
  BY <1>9 DEF Ses!ShellWrite, Ses!ChunksCounted, Ses!ShellKnown
<1>10. CASE Ses!ShellExit
  BY <1>10 DEF Ses!ShellExit, Ses!ChunksCounted, Ses!ShellKnown
<1>11. CASE \E t \in DOMAIN cursors : Ses!CursorThread(t)
  BY <1>0, <1>11 DEF Ses!CursorThread, Ses!runvars
<1> QED BY <1>1, <1>2, <1>3, <1>4, <1>5, <1>6, <1>7, <1>8, <1>9, <1>10, <1>11
        DEF Ses!Next, Ses!RunConsole

\* A step of another part leaves the session alone.
LEMMA SessionIdle ==
    ASSUME SessionInv, UNCHANGED ses
    PROVE  SessionInv'
BY DEF SessionInv, ses, KeysTyped, Ses!KeysInOrder, Ses!ChunksCounted, Ses!ShellKnown

\* Keys are handled in the order they were accepted, output is shown to its
\* end when the terminal's error ends the loop, and no console returns to the
\* menu before its shell is reaped (run_console of console.c, input_thread of
\* ui.c), for every queue length and any number of events.
THEOREM SessionStaysRight == Spec => []SessionRight
<1>1. Init => SessionInv
  <2> SUFFICES ASSUME Init PROVE SessionInv
    OBVIOUS
  <2>1. Ses!Init
    BY DEF Init
  <2>2. KeysTyped /\ Ses!KeysInOrder
    BY <2>1, ScreenSizes DEF Ses!Init, KeysTyped, Ses!KeysInOrder
  <2>3. Ses!ChunksCounted /\ Ses!ShellKnown
    BY <2>1 DEF Ses!Init, Ses!ChunksCounted, Ses!ShellKnown
  <2> QED BY <2>2, <2>3 DEF SessionInv
<1>2. SessionInv /\ [Next]_vars => SessionInv'
  <2> SUFFICES ASSUME SessionInv, [Next]_vars PROVE SessionInv'
    OBVIOUS
  <2>1. CASE SessionStep
    BY <2>1, SessionKeys, SessionShell DEF SessionStep, SessionInv
  <2>2. CASE UNCHANGED ses
    BY <2>2, SessionIdle
  <2> QED
    BY <2>1, <2>2 DEF Next, ScreenStep, TerminalStep, LedStep, ColorStep, vars
<1>3. SessionInv => SessionRight
  <2> SUFFICES ASSUME SessionInv PROVE SessionRight
    OBVIOUS
  <2>1. Ses!KeysInOrder
    BY DEF SessionInv
  <2>2. Ses!OutputDrained /\ Ses!ShellReaped
    BY DEF SessionInv, Ses!ChunksCounted, Ses!ShellKnown, Ses!OutputDrained, Ses!ShellReaped
  <2> QED BY <2>1, <2>2 DEF SessionRight
<1> QED BY <1>1, <1>2, <1>3, PTL DEF Spec

-----------------------------------------------------------------------------
\* Arithmetic of the bar: a part of a scope ends before the scope does, and a
\* larger part of it ends later.
LEMMA PartOfScope ==
    ASSUME NEW s \in Nat, NEW z \in Nat, NEW p \in 0 .. FracMax
    PROVE  (s + z) * FracMax >= s * FracMax + p * z
<1>1. FracMax \in Nat /\ p \in Nat /\ p <= FracMax
  BY ScreenSizes
<1>2. (FracMax - p) * z >= 0
  BY <1>1, SMT
<1>3. (s + z) * FracMax = s * FracMax + p * z + (FracMax - p) * z
  BY <1>1, SMT
<1>4. s * FracMax \in Int /\ p * z \in Int /\ (FracMax - p) * z \in Int
  BY <1>1, SMT
<1> QED BY <1>2, <1>3, <1>4, SMT

LEMMA MoreOfScope ==
    ASSUME NEW s \in Nat, NEW z \in Nat, NEW p \in Nat, NEW q \in Nat, q >= p
    PROVE  s * FracMax + q * z >= s * FracMax + p * z
<1>1. (q - p) * z >= 0
  BY SMT
<1>2. q * z = p * z + (q - p) * z
  BY SMT
<1>3. s * FracMax \in Int /\ p * z \in Int /\ (q - p) * z \in Int /\ q * z \in Int
  BY ScreenSizes, SMT
<1> QED BY <1>1, <1>2, <1>3, SMT

\* A step of the screen that leaves the bar alone or takes it away.
LEMMA BarQuiet ==
    ASSUME Scr!ScopeInRange,
           \/ UNCHANGED <<bar, start, size, prog>>
           \/ bar' # "normal" /\ (UNCHANGED <<start, size, prog>> \/ Scr!ResetProgress)
    PROVE  Scr!ScopeInRange' /\ Scr!BarForward
<1>1. Scr!ScopeInRange'
  BY ScreenSizes DEF Scr!ScopeInRange, Scr!ResetProgress
<1>2. CASE UNCHANGED <<bar, start, size, prog>>
  <2>1. start * FracMax + prog * size \in Int
    BY ScreenSizes DEF Scr!ScopeInRange
  <2> QED BY <1>1, <1>2, <2>1 DEF Scr!BarForward
<1>3. CASE bar' # "normal"
  BY <1>1, <1>3 DEF Scr!BarForward
<1> QED BY <1>2, <1>3

\* ui_show_progress, ui_set_progress and progress_thread of ui.c move the bar,
\* and only forward; every other call leaves it alone or takes it away.
LEMMA ScreenForward ==
    ASSUME Scr!ScopeInRange, Scr!Next
    PROVE  Scr!ScopeInRange' /\ Scr!BarForward
<1>1. CASE \E i \in Icons : Scr!ui_set_background(i) \/ Scr!ui_copy_image(i)
  BY <1>1, BarQuiet DEF Scr!ui_set_background, Scr!ui_copy_image, Scr!barvars
<1>2. CASE Scr!ui_show_indeterminate_progress
  BY <1>2, BarQuiet DEF Scr!ui_show_indeterminate_progress
<1>3. CASE Scr!ui_reset_progress
  BY <1>3, BarQuiet DEF Scr!ui_reset_progress, Scr!ResetProgress
<1>4. CASE Scr!progress_thread
  <2>1. CASE UNCHANGED prog
    BY <1>4, <2>1, BarQuiet DEF Scr!progress_thread
  <2>2. CASE prog' > prog /\ prog' <= FracMax /\ prog' \in Int
    <3>1. UNCHANGED <<start, size>>
      BY <1>4 DEF Scr!progress_thread
    <3>2. Scr!ScopeInRange'
      BY <2>2, <3>1, ScreenSizes DEF Scr!ScopeInRange
    <3>3. prog \in Nat /\ prog' \in Nat /\ prog' >= prog
      BY <2>2, ScreenSizes DEF Scr!ScopeInRange
    <3> QED BY <3>1, <3>2, <3>3, MoreOfScope DEF Scr!ScopeInRange, Scr!BarForward
  <2>3. UNCHANGED prog \/ (prog' > prog /\ prog' <= FracMax /\ prog' \in Int)
    BY <1>4, ScreenSizes DEF Scr!progress_thread
  <2> QED BY <2>1, <2>2, <2>3
<1>5. CASE \E portion \in 0 .. 2, t \in BOOLEAN : Scr!ui_show_progress(portion, t)
  <2>1. PICK portion \in 0 .. 2, t \in BOOLEAN : Scr!ui_show_progress(portion, t)
    BY <1>5
  <2>2. start' = start + size /\ size' = portion /\ prog' = 0
    BY <2>1 DEF Scr!ui_show_progress
  <2>3. Scr!ScopeInRange'
    BY <2>2, ScreenSizes DEF Scr!ScopeInRange
  <2>4. start' * FracMax + prog' * size' = (start + size) * FracMax
    BY <2>2, ScreenSizes, SMT DEF Scr!ScopeInRange
  <2> QED BY <2>3, <2>4, PartOfScope DEF Scr!ScopeInRange, Scr!BarForward
<1>6. CASE \E f \in -1 .. FracMax + 1 : Scr!ui_set_progress(f)
  <2>1. prog' > prog /\ prog' \in 0 .. FracMax /\ UNCHANGED <<start, size>>
    BY <1>6, ScreenSizes DEF Scr!ui_set_progress, Scr!ScopeInRange
  <2>2. Scr!ScopeInRange'
    BY <2>1 DEF Scr!ScopeInRange
  <2>3. prog \in Nat /\ prog' \in Nat /\ prog' >= prog
    BY <2>1, ScreenSizes DEF Scr!ScopeInRange
  <2> QED BY <2>1, <2>2, <2>3, MoreOfScope DEF Scr!ScopeInRange, Scr!BarForward
<1>7. CASE \E buf \in {<<"x">>, <<"y", "\n">>, <<"\n", "x">>} : Scr!ui_print(buf)
  BY <1>7, BarQuiet DEF Scr!ui_print, Scr!barvars
<1>8. CASE Scr!ui_start_menu
  BY <1>8, BarQuiet DEF Scr!ui_start_menu, Scr!ResetProgress
<1>9. CASE Scr!ui_end_menu \/ Scr!ToggleText \/ \E on \in BOOLEAN : Scr!ShowConsole(on)
  BY <1>9, BarQuiet DEF Scr!ui_end_menu, Scr!ToggleText, Scr!ShowConsole, Scr!barvars
<1> QED BY <1>1, <1>2, <1>3, <1>4, <1>5, <1>6, <1>7, <1>8, <1>9 DEF Scr!Next

\* A title colour that was set is kept by every property but a title's.
LEMMA ColorsKept ==
    ASSUME Scr!ColorNext
    PROVE  Scr!TitleKept
<1>1. PICK v \in Values : Scr!TitleProperty(v) \/ Scr!MenuProperty(v)
                          \/ \E k \in {29, 30, 37, 97, 98} : Scr!TermProperty(k, v)
  BY DEF Scr!ColorNext
<1>2. CASE Scr!TitleProperty(v)
  <2>1. last'.name = "title"
    BY <1>2 DEF Scr!TitleProperty, Scr!Read
  <2> QED BY <2>1 DEF Scr!TitleKept
<1>3. CASE Scr!MenuProperty(v)
  BY <1>3 DEF Scr!MenuProperty, Scr!TitleKept
<1>4. CASE \E k \in {29, 30, 37, 97, 98} : Scr!TermProperty(k, v)
  BY <1>4 DEF Scr!TermProperty, Scr!TitleKept
<1> QED BY <1>1, <1>2, <1>3, <1>4

\* The progress bar never runs backwards while it is a normal bar, and a menu
\* colour never replaces a title colour that was set (ui.c), whatever the
\* scopes, the clock, the callbacks and the order of the properties.
THEOREM NeverStepsBack == Spec => NoStepBack
<1>1. Init => Scr!ScopeInRange
  BY ScreenSizes DEF Init, Scr!Init, Scr!ScopeInRange
<1>2. Scr!ScopeInRange /\ [Next]_vars => Scr!ScopeInRange' /\ Scr!BarForward
  <2> SUFFICES ASSUME Scr!ScopeInRange, [Next]_vars PROVE Scr!ScopeInRange' /\ Scr!BarForward
    OBVIOUS
  <2>1. CASE ScreenStep
    BY <2>1, ScreenForward DEF ScreenStep
  <2>2. CASE UNCHANGED scr
    BY <2>2, BarQuiet DEF scr
  <2> QED
    BY <2>1, <2>2 DEF Next, TerminalStep, SessionStep, LedStep, ColorStep, vars
<1>3. [Next]_vars => Scr!TitleKept
  <2> SUFFICES ASSUME [Next]_vars PROVE Scr!TitleKept
    OBVIOUS
  <2>1. CASE ColorStep
    BY <2>1, ColorsKept DEF ColorStep
  <2>2. CASE UNCHANGED clr
    BY <2>2 DEF clr, Scr!TitleKept
  <2> QED
    BY <2>1, <2>2 DEF Next, ScreenStep, TerminalStep, SessionStep, LedStep, vars
<1> QED BY <1>1, <1>2, <1>3, PTL DEF Spec, NoStepBack
-----------------------------------------------------------------------------
DisplayInv == Scr!DisplayCurrent /\ Scr!SurfaceKnown

\* update_screen_locked draws everything anew and flips.
LEMMA ScreenUpdated ==
    ASSUME Scr!update_screen_locked
    PROVE  DisplayInv'
BY DEF DisplayInv, Scr!update_screen_locked, Scr!DisplayCurrent, Scr!SurfaceKnown, Scr!DrawnNow

\* update_progress_locked draws the bar alone only onto a surface that holds
\* everything else as it is.
LEMMA ProgressUpdated ==
    ASSUME DisplayInv, Scr!update_progress_locked,
           UNCHANGED <<icon, showText, showMenu, showConsole, text, textTop>>
    PROVE  DisplayInv'
<1> DEFINE now  == Scr!Drawn(icon, bar, start, size, prog, showText, showMenu, showConsole,
                             text, textTop)
           then == Scr!Drawn(icon, bar', start', size', prog', showText, showMenu, showConsole,
                             text, textTop)
<1>1. Scr!DrawnNow = now /\ Scr!DrawnNow' = then
  BY DEF Scr!DrawnNow
<1>2. CASE showText' \/ ~same
  BY <1>1, <1>2 DEF Scr!update_progress_locked, Scr!DrawnNow, DisplayInv, Scr!DisplayCurrent,
                    Scr!SurfaceKnown
<1>3. CASE ~(showText' \/ ~same)
  <2>1. mem = now
    BY <1>1, <1>3 DEF DisplayInv, Scr!SurfaceKnown
  <2>2. /\ mem' = IF mem.layer = "screen"
                  THEN [mem EXCEPT !.bar = Scr!BarShown(bar', start', size', prog')] ELSE mem
        /\ shown' = mem'
    BY <1>3 DEF Scr!update_progress_locked
  <2>3. CASE showConsole
    <3>1. now = [layer |-> "console"] /\ then = [layer |-> "console"]
      BY <2>3 DEF Scr!Drawn
    <3>2. mem.layer # "screen"
      BY <2>1, <3>1
    <3> QED BY <1>1, <2>1, <2>2, <3>1, <3>2 DEF DisplayInv, Scr!DisplayCurrent, Scr!SurfaceKnown
  <2>4. CASE ~showConsole
    <3> DEFINE over == IF showText THEN Scr!Overlay(text, textTop) ELSE <<>>
               old  == Scr!BarShown(bar, start, size, prog)
               new  == Scr!BarShown(bar', start', size', prog')
    <3>1. /\ now = [layer |-> "screen", icon |-> icon, bar |-> old,
                    menu |-> showText /\ showMenu, text |-> over]
          /\ then = [layer |-> "screen", icon |-> icon, bar |-> new,
                     menu |-> showText /\ showMenu, text |-> over]
      BY <2>4 DEF Scr!Drawn
    <3> HIDE DEF over, old, new, now, then
    <3>2. mem.layer = "screen" /\ [mem EXCEPT !.bar = new] = then
      BY <2>1, <3>1
    <3>3. mem' = then /\ shown' = then
      BY <2>2, <3>2 DEF new
    <3> QED BY <1>1, <3>3 DEF DisplayInv, Scr!DisplayCurrent, Scr!SurfaceKnown
  <2> QED BY <2>3, <2>4
<1> QED BY <1>2, <1>3

LEMMA DisplayStep ==
    ASSUME DisplayInv, Scr!Next
    PROVE  DisplayInv'
<1>1. CASE Scr!update_screen_locked
  BY <1>1, ScreenUpdated
<1>2. CASE \E i \in Icons : Scr!ui_copy_image(i)
  <2>1. UNCHANGED <<icon, bar, start, size, prog, showText, showMenu, showConsole, text, textTop,
                    shown>> /\ same' = FALSE
    BY <1>2 DEF Scr!ui_copy_image, Scr!barvars, Scr!textvars
  <2> QED BY <2>1 DEF DisplayInv, Scr!DisplayCurrent, Scr!SurfaceKnown, Scr!DrawnNow
<1>3. CASE \/ Scr!ui_show_indeterminate_progress \/ Scr!progress_thread
           \/ \E portion \in 0 .. 2, t \in BOOLEAN : Scr!ui_show_progress(portion, t)
           \/ \E f \in -1 .. FracMax + 1 : Scr!ui_set_progress(f)
  <2>1. UNCHANGED <<icon, showText, showMenu, showConsole, text, textTop>>
    BY <1>3 DEF Scr!ui_show_indeterminate_progress, Scr!progress_thread, Scr!ui_show_progress,
                Scr!ui_set_progress, Scr!textvars
  <2>2. Scr!update_progress_locked
    BY <1>3 DEF Scr!ui_show_indeterminate_progress, Scr!progress_thread, Scr!ui_show_progress,
                Scr!ui_set_progress
  <2> QED BY <2>1, <2>2, ProgressUpdated
<1> QED
  BY <1>1, <1>2, <1>3 DEF Scr!Next, Scr!ui_set_background, Scr!ui_reset_progress, Scr!ui_print,
     Scr!ui_start_menu, Scr!ui_end_menu, Scr!ToggleText, Scr!ShowConsole

\* After every call the display shows what the state says (draw_screen_locked,
\* update_progress_locked and ui_copy_image of ui.c), although progress
\* updates draw only the bar and the surface also serves as scratch space.
THEOREM DisplayStaysCurrent == Spec => []Scr!DisplayCurrent
<1>1. Init => DisplayInv
  BY DEF Init, Scr!Init, DisplayInv, Scr!DisplayCurrent, Scr!SurfaceKnown
<1>2. DisplayInv /\ [Next]_vars => DisplayInv'
  <2> SUFFICES ASSUME DisplayInv, [Next]_vars PROVE DisplayInv'
    OBVIOUS
  <2>1. CASE ScreenStep
    BY <2>1, DisplayStep DEF ScreenStep
  <2>2. CASE UNCHANGED scr
    BY <2>2 DEF scr, DisplayInv, Scr!DisplayCurrent, Scr!SurfaceKnown, Scr!DrawnNow
  <2> QED
    BY <2>1, <2>2 DEF Next, TerminalStep, SessionStep, LedStep, ColorStep, vars
<1>3. DisplayInv => Scr!DisplayCurrent
  BY DEF DisplayInv
<1> QED BY <1>1, <1>2, <1>3, PTL DEF Spec
=============================================================================
