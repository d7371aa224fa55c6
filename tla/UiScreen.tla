------------------------------ MODULE UiScreen ------------------------------
(***************************************************************************)
(* The screen of ui.c: the background icon, the progress bar with its      *)
(* scopes and its thread, the log text overlay and what of all this is on  *)
(* the display.  Every function holds gUpdateMutex from its first to its   *)
(* last line, so a call is one action.  mem is the surface drawn into,     *)
(* shown the page last flipped to; both are described by their layers.     *)
(* The lamp, which has a thread and a mutex of its own, and the colour     *)
(* properties are at the end.                                              *)
(***************************************************************************)
EXTENDS Integers, Sequences, SequencesExt

CONSTANTS
    Icons,      \* background icons
    TextRows,   \* text_rows
    TextCols,   \* text_cols
    FracMax,    \* the fraction 1.0 of a progress scope
    MaxChars,   \* bound: characters printed in a behaviour
    MaxScopes,  \* bound: progress scopes opened in a behaviour
    Values,     \* values of colour properties, sequences of character codes
    MaxProps    \* bound: properties in a file

VARIABLES
    lite,       \* the lite build: text hidden at first, toggled by a chord
    icon,       \* gCurrentIcon
    bar,        \* gProgressBarType
    start, size, prog, timed,  \* gProgressScopeStart, Size, gProgress, Duration
    same,       \* gPagesIdentical
    showText, showMenu, showConsole,
    textRow, textCol, textTop, text,       \* text_row, text_col, text_top, text
    mem, shown,                \* layers of the surface and of the display
    log,        \* every character printed, for the properties
    scopes,     \* scopes opened so far
    ledSts, lit, ledPc,        \* led_sts, the lamp, the LED thread
    title, titleSet, menuColor,  \* title_color, title_color_set, menu_color
    term,       \* console_term_colors
    last, props \* the property last read, for the properties; how many so far

svars == <<lite, icon, bar, start, size, prog, timed, same, showText, showMenu,
           showConsole, textRow, textCol, textTop, text, mem, shown, log, scopes>>

NoIcon == "none"
Blank  == [layer |-> "blank"]

\* The rows of the overlay from top to bottom (screen rows a menu covers are
\* drawn over by it).
Overlay(tx, tp) == [i \in 0 .. TextRows - 1 |-> tx[(i + tp) % TextRows]]

BarShown(b, st, sz, pr) ==
    CASE b = "none" -> <<"none">>
      [] b = "indeterminate" -> <<"indeterminate">>
      [] b = "normal" -> <<"normal", st * FracMax + pr * sz>>

(***************************************************************************)
(* draw_screen_locked: the console hides everything else; otherwise icon,  *)
(* bar, and over them the text with the menu above it.                     *)
(***************************************************************************)
Drawn(ic, b, st, sz, pr, stx, sm, sc, tx, tp) ==
    IF sc THEN [layer |-> "console"]
    ELSE [layer |-> "screen", icon |-> ic, bar |-> BarShown(b, st, sz, pr),
          menu |-> stx /\ sm, text |-> IF stx THEN Overlay(tx, tp) ELSE <<>>]

DrawnNow == Drawn(icon, bar, start, size, prog, showText, showMenu, showConsole, text, textTop)

\* update_screen_locked, after the assignments of the call.
update_screen_locked ==
    /\ mem' = Drawn(icon', bar', start', size', prog', showText', showMenu',
                    showConsole', text', textTop')
    /\ shown' = mem'
    /\ same' = (same /\ showConsole')    \* draw_background_locked clears it

update_progress_locked_Slip ==
    /\ mem' = IF mem.layer = "screen"
              THEN [mem EXCEPT !.bar = BarShown(bar', start', size', prog')] ELSE mem
    /\ shown' = mem' /\ UNCHANGED same

\* update_progress_locked: only the bar, when the rest is known to be drawn.
update_progress_locked ==
    IF showText' \/ ~same
    THEN /\ mem' = Drawn(icon', bar', start', size', prog', showText', showMenu',
                         showConsole', text', textTop')
         /\ shown' = mem' /\ same' = TRUE
    ELSE /\ mem' = IF mem.layer = "screen"
                   THEN [mem EXCEPT !.bar = BarShown(bar', start', size', prog')]
                   ELSE mem
         /\ shown' = mem' /\ UNCHANGED same

Init ==
    /\ lite \in BOOLEAN /\ showText = ~lite
    /\ icon = NoIcon /\ bar = "none" /\ start = 0 /\ size = 0 /\ prog = 0 /\ timed = FALSE
    /\ same = FALSE /\ showMenu = FALSE /\ showConsole = FALSE
    /\ textRow = 0 /\ textCol = 0 /\ textTop = 1 % TextRows /\ text = [i \in 0 .. TextRows - 1 |-> <<>>]
    /\ mem = DrawnNow /\ shown = DrawnNow /\ log = <<>> /\ scopes = 0

textvars == <<textRow, textCol, textTop, text, log>>
barvars  == <<bar, start, size, prog, timed>>

ui_set_background(i) ==
    /\ icon' = i
    /\ UNCHANGED <<lite, barvars, showText, showMenu, showConsole, textvars, scopes>>
    /\ update_screen_locked

ui_copy_image_Slip(i) ==
    /\ mem' = [layer |-> "screen", icon |-> i, bar |-> <<"none">>, menu |-> FALSE, text |-> <<>>]
    /\ UNCHANGED <<lite, icon, barvars, showText, showMenu, showConsole, textvars, shown, scopes, same>>

\* The surface is used as scratch space for the boot image; nothing is flipped.
ui_copy_image(i) ==
    /\ mem' = [layer |-> "screen", icon |-> i, bar |-> <<"none">>, menu |-> FALSE, text |-> <<>>]
    /\ same' = FALSE
    /\ UNCHANGED <<lite, icon, barvars, showText, showMenu, showConsole, textvars, shown, scopes>>

ui_show_indeterminate_progress ==
    /\ bar # "indeterminate" /\ bar' = "indeterminate"
    /\ UNCHANGED <<lite, icon, start, size, prog, timed, showText, showMenu, showConsole, textvars, scopes>>
    /\ update_progress_locked

ui_show_progress_Slip(portion, seconds) ==
    /\ scopes < MaxScopes /\ scopes' = scopes + 1
    /\ bar' = "normal" /\ UNCHANGED start /\ size' = portion
    /\ timed' = seconds /\ prog' = 0
    /\ UNCHANGED <<lite, icon, showText, showMenu, showConsole, textvars>>
    /\ update_progress_locked

ui_show_progress(portion, seconds) ==
    /\ scopes < MaxScopes /\ scopes' = scopes + 1
    /\ bar' = "normal" /\ start' = start + size /\ size' = portion
    /\ timed' = seconds /\ prog' = 0
    /\ UNCHANGED <<lite, icon, showText, showMenu, showConsole, textvars>>
    /\ update_progress_locked

\* Only forward, and only when the bar would move by a pixel (a unit here).
ui_set_progress(fraction) ==
    /\ LET f == IF fraction < 0 THEN 0 ELSE IF fraction > FracMax THEN FracMax ELSE fraction IN
       /\ bar = "normal" /\ f > prog
       /\ (prog * size) \div FracMax # (f * size) \div FracMax
       /\ prog' = f
    /\ UNCHANGED <<lite, icon, bar, start, size, timed, showText, showMenu, showConsole, textvars, scopes>>
    /\ update_progress_locked

ResetProgress == bar' = "none" /\ start' = 0 /\ size' = 0 /\ timed' = FALSE /\ prog' = 0

ui_reset_progress ==
    /\ ResetProgress
    /\ UNCHANGED <<lite, icon, showText, showMenu, showConsole, textvars, scopes>>
    /\ update_screen_locked

\* One round of the thread; the clock may have been set back or forth.
progress_thread ==
    /\ \/ bar = "indeterminate" /\ ~showText /\ UNCHANGED prog
       \/ /\ bar = "normal" /\ timed
          /\ \E elapsed \in -1 .. FracMax + 1 :
                prog' = IF elapsed > FracMax THEN FracMax ELSE elapsed
          /\ prog' > prog
    /\ UNCHANGED <<lite, icon, bar, start, size, timed, showText, showMenu, showConsole, textvars, scopes>>
    /\ update_progress_locked

PutChar_Slip(st, c) ==
    LET wrap == c = "\n" \/ st.col >= TextCols
        r2   == IF wrap THEN (st.row + 1) % TextRows ELSE st.row
        tx   == IF wrap THEN [st.text EXCEPT ![r2] = <<>>] ELSE st.text
    IN  [row  |-> r2,
         col  |-> (IF wrap THEN 0 ELSE st.col) + (IF c # "\n" THEN 1 ELSE 0),
         top  |-> st.top,
         text |-> IF c # "\n" THEN [tx EXCEPT ![r2] = Append(@, c)] ELSE tx]

(***************************************************************************)
(* ui_print and ui_print_raw: the rows are a ring, the line being written  *)
(* is always the one above text_top.                                       *)
(***************************************************************************)
PutChar(st, c) ==
    LET wrap == c = "\n" \/ st.col >= TextCols
        r2   == IF wrap THEN (st.row + 1) % TextRows ELSE st.row
        tx   == IF wrap THEN [st.text EXCEPT ![r2] = <<>>] ELSE st.text
    IN  [row  |-> r2,
         col  |-> (IF wrap THEN 0 ELSE st.col) + (IF c # "\n" THEN 1 ELSE 0),
         top  |-> IF wrap /\ r2 = st.top THEN (st.top + 1) % TextRows ELSE st.top,
         text |-> IF c # "\n" THEN [tx EXCEPT ![r2] = Append(@, c)] ELSE tx]

ui_print(buf) ==
    /\ Len(log) + Len(buf) <= MaxChars
    /\ LET st == FoldLeft(PutChar, [row |-> textRow, col |-> textCol, top |-> textTop, text |-> text], buf)
       IN  textRow' = st.row /\ textCol' = st.col /\ textTop' = st.top /\ text' = st.text
    /\ log' = log \o buf
    /\ UNCHANGED <<lite, icon, barvars, showText, showMenu, showConsole, scopes>>
    /\ update_screen_locked

ui_start_menu ==
    /\ ResetProgress /\ showMenu' = TRUE
    /\ UNCHANGED <<lite, icon, showText, showConsole, textvars, scopes>>
    /\ update_screen_locked

ui_end_menu ==
    /\ showMenu /\ showMenu' = FALSE
    /\ UNCHANGED <<lite, icon, barvars, showText, showConsole, textvars, scopes>>
    /\ update_screen_locked

\* input_thread, on the chord device_toggle_display knows (lite build).
ToggleText ==
    /\ lite /\ showText' = ~showText
    /\ UNCHANGED <<lite, icon, barvars, showMenu, showConsole, textvars, scopes>>
    /\ update_screen_locked

\* ui_console_begin and ui_console_end (full build).
ShowConsole(on) ==
    /\ ~lite /\ showConsole' = on
    /\ UNCHANGED <<lite, icon, barvars, showText, showMenu, textvars, scopes>>
    /\ update_screen_locked

Next ==
    \/ \E i \in Icons : ui_set_background(i) \/ ui_copy_image(i)
    \/ ui_show_indeterminate_progress \/ ui_reset_progress \/ progress_thread
    \/ \E portion \in 0 .. 2, t \in BOOLEAN : ui_show_progress(portion, t)
    \/ \E f \in -1 .. FracMax + 1 : ui_set_progress(f)
    \/ \E buf \in {<<"x">>, <<"y", "\n">>, <<"\n", "x">>} : ui_print(buf)
    \/ ui_start_menu \/ ui_end_menu \/ ToggleText
    \/ \E on \in BOOLEAN : ShowConsole(on)

-----------------------------------------------------------------------------
lvars == <<ledSts, lit, ledPc>>

LedInit == ledSts = "off" /\ lit = FALSE /\ ledPc = "run"

LedRequest_Slip(s) ==
    /\ ledSts' = s
    /\ UNCHANGED <<ledPc, lit>>

(***************************************************************************)
(* led_thread.  ledPc is "run" with the mutex free, "wait" in              *)
(* pthread_cond_wait, "sleep" in the half second of a blink.  LedRequest   *)
(* is ui_led_toggle and ui_led_blink, which signal the condition.          *)
(***************************************************************************)
LedRequest(s) ==
    /\ ledSts' = s /\ ledPc' = IF ledPc = "wait" THEN "run" ELSE ledPc
    /\ UNCHANGED lit

LedThread ==
    /\ \/ /\ ledPc = "run" /\ ledSts \in {"off", "on"}
          /\ lit' = (ledSts = "on") /\ ledPc' = "wait" /\ UNCHANGED ledSts
       \/ /\ ledPc = "run" /\ ledSts = "once"
          /\ lit' = TRUE /\ ledSts' = "off" /\ ledPc' = "sleep"
       \/ /\ ledPc = "run" /\ ledSts = "blink"
          /\ lit' = ~lit /\ ledPc' = "sleep" /\ UNCHANGED ledSts
       \/ ledPc = "sleep" /\ ledPc' = "run" /\ UNCHANGED <<lit, ledSts>>

LedNext == LedThread \/ \E s \in {"off", "on", "once", "blink"} : LedRequest(s)

-----------------------------------------------------------------------------
(***************************************************************************)
(* The colours: the property file read by ui_init and the terminal colours *)
(* the console selects.  Characters are their ASCII codes.                 *)
(***************************************************************************)
kvars == <<title, titleSet, menuColor, term, last, props>>

Bad == -1
Default == <<255, 55, 5, 255>>

Digit_Slip(c) == IF c > 57 THEN c - 65 + 10 ELSE c - 48

\* One hexadecimal digit, with the arithmetic of an unsigned char.
Digit(c) == IF c > 57 THEN LET d == (c - 65 + 10) % 256 IN IF d > 15 THEN Bad ELSE d
            ELSE LET d == (c - 48) % 256 IN IF d > 9 THEN Bad ELSE d

read_byte_hex(a, b) ==
    IF Digit(a) = Bad \/ Digit(b) = Bad THEN Bad ELSE Digit(a) * 16 + Digit(b)

\* htoc24 and htoc32: '#' and then n bytes; a longer text is accepted.
htoc(v, n) ==
    IF Len(v) < 2 * n + 1 \/ v[1] # 35 THEN <<>>
    ELSE LET c == [i \in 1 .. n |-> read_byte_hex(v[2 * i], v[2 * i + 1])]
         IN  IF \E i \in 1 .. n : c[i] = Bad THEN <<>> ELSE c

TermCodes == (30 .. 37) \cup (90 .. 97)

ColorInit ==
    /\ title = Default /\ titleSet = FALSE /\ menuColor = Default
    /\ term = [k \in TermCodes |-> <<k, k, k>>] /\ last = [name |-> "none"] /\ props = 0

Read(name, v) == /\ props < MaxProps /\ props' = props + 1
                 /\ last' = [name |-> name, value |-> v]

\* evaluate_property, one action per group of names
TitleProperty(v) ==
    /\ Read("title", v) /\ UNCHANGED <<menuColor, term>>
    /\ LET c == htoc(v, 4) IN
       IF c = <<>> THEN UNCHANGED <<title, titleSet>> ELSE title' = c /\ titleSet' = TRUE

MenuProperty_Slip(v) ==
    /\ Read("menu", v) /\ UNCHANGED <<titleSet, term>>
    /\ LET c == htoc(v, 4) IN
       IF c = <<>> THEN UNCHANGED <<title, menuColor>>
       ELSE menuColor' = c /\ title' = c

MenuProperty(v) ==
    /\ Read("menu", v) /\ UNCHANGED <<titleSet, term>>
    /\ LET c == htoc(v, 4) IN
       IF c = <<>> THEN UNCHANGED <<title, menuColor>>
       ELSE menuColor' = c /\ title' = IF titleSet THEN title ELSE c

TermProperty(k, v) ==
    /\ Read("term", v) /\ UNCHANGED <<title, titleSet, menuColor>>
    /\ LET c == htoc(v, 3) IN
       term' = IF c # <<>> /\ k \in TermCodes THEN [term EXCEPT ![k] = c] ELSE term

ColorNext == \E v \in Values : TitleProperty(v) \/ MenuProperty(v)
                          \/ \E k \in {29, 30, 37, 97, 98} : TermProperty(k, v)

-----------------------------------------------------------------------------
\* The display shows what the state says after every call, although progress
\* updates draw only the bar and the surface also serves as scratch space.
DisplayCurrent == shown = DrawnNow

\* The lines on the overlay are the last text_rows lines printed, the newest at
\* the bottom: ring indices against the whole log, wrapped at text_cols.
Lines ==
    LET step(ls, c) == IF c = "\n" THEN Append(ls, <<>>)
                       ELSE IF Len(ls[Len(ls)]) >= TextCols THEN Append(ls, <<c>>)
                       ELSE [ls EXCEPT ![Len(ls)] = Append(@, c)]
    IN  FoldLeft(step, <<<<>>>>, log)

OverlayShowsTail ==
    \A i \in 0 .. TextRows - 1 :
        Overlay(text, textTop)[i] =
            LET k == Len(Lines) - (TextRows - 1 - i) IN IF k >= 1 THEN Lines[k] ELSE <<>>

\* What allows update_progress_locked to draw the bar alone: while
\* gPagesIdentical is set the surface holds what the state says as well.
SurfaceKnown == same => mem = DrawnNow

\* What keeps the bar going forward: the progress of a scope is a part of it.
ScopeInRange == start \in Nat /\ size \in Nat /\ prog \in 0 .. FracMax

\* The bar never runs backwards while it is a normal bar: not when a scope
\* ends early, not when the clock is set back, not when a callback is late.
BarForward ==
    (bar = "normal" /\ bar' = "normal") =>
        start' * FracMax + prog' * size' >= start * FracMax + prog * size

\* What may not last: a lamp that differs from a steady request, whatever
\* blink the request has interrupted.
LampWrong == ledSts \in {"on", "off"} /\ lit # (ledSts = "on")

\* Files from before the title had a colour of its own: the title follows the
\* menu's colour in whatever order the properties come, until it is set.
TitleFollowsMenu ==
    /\ ~titleSet => title = menuColor
    /\ (titleSet /\ last.name = "title" /\ htoc(last.value, 4) # <<>>) => title = htoc(last.value, 4)

\* A title colour once set is not overwritten by a menu colour.
TitleKept == (titleSet /\ last'.name = "menu") => title' = title

\* A value is taken when it is '#' and four bytes of digits 0-9 and A-F, and
\* then byte by byte as the digits say; one with another character in front of
\* '0' or behind 'F' is refused.
HexRight ==
    LET v   == last.value
        hex == <<48, 49, 50, 51, 52, 53, 54, 55, 56, 57, 65, 66, 67, 68, 69, 70>>
        val(c) == (CHOOSE i \in 1 .. 16 : hex[i] = c) - 1
        isHex(c) == \E i \in 1 .. 16 : hex[i] = c
    IN  (last.name \in {"title", "menu"} /\ Len(v) >= 9 /\ v[1] = 35) =>
        /\ (\A i \in 2 .. 9 : isHex(v[i])) =>
               htoc(v, 4) = [i \in 1 .. 4 |-> 16 * val(v[2 * i]) + val(v[2 * i + 1])]
        /\ (\E i \in 2 .. 9 : v[i] < 48 \/ v[i] > 70) => htoc(v, 4) = <<>>
=============================================================================
