------------------------------ MODULE MCScreen ------------------------------
(***************************************************************************)
(* The screen and the console of the recovery, model-checked part by part: *)
(* a behaviour exercises one part, the others keep their initial state.    *)
(***************************************************************************)
EXTENDS Integers, Sequences, FiniteSets

CONSTANTS
    Icons, TextRows, TextCols, FracMax, MaxChars, MaxScopes,  \* see UiScreen
    Rows, Cols, History, Buffer, Chunks, MaxPrints,           \* see UiTerminal
    QueueMax, MaxEvents, MaxOutput, MaxSessions,              \* see ConsoleSession
    Values, MaxProps                                          \* see UiScreen, colours

\* The key queue may have any length, a progress scope any number of pixels.
ASSUME ScreenSizes == QueueMax \in Nat /\ FracMax \in Nat \ {0}

VARIABLES
    part,
    lite, icon, bar, start, size, prog, timed, same, showText, showMenu, showConsole,
    textRow, textCol, textTop, text, mem, shown, log, scopes,
    cur, col, top, force, reserve, cells, colour, odd, prints,
    rel, queue, pressed, accepted, handled, events, pc, sh, wrote, unread, seen,
    typed, quit, how, show, cursors, sessions,
    ledSts, lit, ledPc,
    title, titleSet, menuColor, term, last, props

C(c) == <<c>>
NL   == C("nl")

\* Reads from the shell: plain text, every control character and every escape
\* sequence, and one read that fills the buffer and then moves the cursor.
MCChunks ==
    {<<C("x")>>, <<NL>>, <<NL, NL, NL>>, <<C("bs")>>, <<C("cr"), C("tab")>>,
     <<C("x"), C("x"), C("x")>>, <<C("bell")>>,
     <<<<"A", 1, 0>>>>, <<<<"A", 4, 0>>, C("x")>>, <<<<"B", 2, 0>>>>,
     <<<<"C", 5, 0>>>>, <<<<"D", 2, 0>>>>, <<<<"H", 1, 0>>>>, <<<<"H", 0, 9>>>>,
     <<<<"J", 0, 0>>>>, <<<<"K", 0, 0>>>>, <<<<"K", 1, 0>>>>, <<<<"K", 2, 0>>>>,
     <<<<"m", 31, 0>>>>, <<<<"m", 0, 0>>>>, <<<<"h", 0, 0>>>>,
     <<NL, NL, NL, NL, NL, NL, <<"A", 9, 0>>, C("x")>>}

\* "#0A0B0C0D", the same without its last digit, without '#', in lower case,
\* and one with the characters next to '0' and 'F'.
MCValues ==
    {<<35, 48, 65, 48, 66, 48, 67, 48, 68>>, <<35, 48, 65, 48, 66, 48, 67, 48>>,
     <<48, 48, 65, 48, 66, 48, 67, 48, 68>>, <<35, 48, 97, 48, 98, 48, 99, 48, 100>>,
     <<35, 49, 70, 49, 70, 49, 70, 49, 70>>, <<35, 47, 48, 48, 48, 48, 48, 48, 71>>}

Scr == INSTANCE UiScreen
Trm == INSTANCE UiTerminal
Ses == INSTANCE ConsoleSession

scr == <<lite, icon, bar, start, size, prog, timed, same, showText, showMenu,
         showConsole, textRow, textCol, textTop, text, mem, shown, log, scopes>>
trm == <<cur, col, top, force, reserve, cells, colour, odd, prints>>
ses == <<rel, queue, pressed, accepted, handled, events, pc, sh, wrote, unread, seen,
         typed, quit, how, show, cursors, sessions>>
led == <<ledSts, lit, ledPc>>
clr == <<title, titleSet, menuColor, term, last, props>>
vars == <<part, scr, trm, ses, led, clr>>

Init ==
    /\ part \in {"screen", "terminal", "session", "led", "colors"}
    /\ Scr!Init /\ Trm!Init /\ Ses!Init /\ Scr!LedInit /\ Scr!ColorInit

ScreenStep ==
    /\ part = "screen" /\ Scr!Next
    /\ UNCHANGED <<part, trm, ses, led, clr>>

TerminalStep ==
    /\ part = "terminal" /\ Trm!Next
    /\ UNCHANGED <<part, scr, ses, led, clr>>

SessionStep ==
    /\ part = "session" /\ Ses!Next
    /\ UNCHANGED <<part, scr, trm, led, clr>>

LedStep ==
    /\ part = "led" /\ Scr!LedNext
    /\ UNCHANGED <<part, scr, trm, ses, clr>>

ColorStep ==
    /\ part = "colors" /\ Scr!ColorNext
    /\ UNCHANGED <<part, scr, trm, ses, led>>

Next == ScreenStep \/ TerminalStep \/ SessionStep \/ LedStep \/ ColorStep

\* The main thread in run_console, each cursor thread and the LED thread go on
\* whenever they can; nothing is assumed of the user and of the shell.
Fairness ==
    /\ WF_vars(\/ /\ part = "session" /\ Ses!RunConsole
                  /\ UNCHANGED <<part, scr, trm, led, clr>>
               \/ /\ part = "led" /\ Scr!LedThread
                  /\ UNCHANGED <<part, scr, trm, ses, clr>>)
    /\ \A t \in 1 .. MaxSessions :
           WF_vars(/\ part = "session" /\ t \in DOMAIN cursors /\ Ses!CursorThread(t)
                   /\ UNCHANGED <<part, scr, trm, led, clr>>)

Spec == Init /\ [][Next]_vars /\ Fairness

-----------------------------------------------------------------------------
\* See UiScreen and UiTerminal: the display shows what the state says and the
\* newest lines; the terminal indexes only what exists and keeps its cursor in
\* the line and on the screen; colours are read as the file says.
ScreenRight ==
    /\ Scr!DisplayCurrent /\ Scr!OverlayShowsTail
    /\ Trm!CursorInLine /\ Trm!RowsExist /\ Trm!CursorOnScreen /\ Trm!ScrollStops
    /\ Scr!TitleFollowsMenu /\ Scr!HexRight

\* See ConsoleSession: keys are handled in order, output is shown to its end,
\* and no shell is left behind.
SessionRight == Ses!KeysInOrder /\ Ses!OutputDrained /\ Ses!ShellReaped

\* See UiScreen: the progress bar never runs backwards, and a
\* menu colour never overwrites a title colour.
NoStepBack == [][Scr!BarForward /\ Scr!TitleKept]_vars

Owed ==
    CASE part = "session" -> Ses!ShellGone
      [] part = "led" -> Scr!LampWrong
      [] OTHER -> FALSE

\* The console of a dead shell closes, the cursor threads of a closed console
\* end, and the lamp comes to show the last steady request.
ScreenSettles ==
    /\ Owed ~> ~Owed
    /\ (part = "session" /\ Ses!CursorsLeft) ~> (part # "session" \/ ~Ses!CursorsLeft)
=============================================================================
