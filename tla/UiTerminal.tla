----------------------------- MODULE UiTerminal -----------------------------
(***************************************************************************)
(* The terminal of the console screen (ui.c, second half): a buffer of     *)
(* rows with a window on it, the cursor, and the escape sequences that     *)
(* move them.  ui_console_print takes one chunk read from the shell; a     *)
(* chunk is a sequence of characters and of complete escape sequences.     *)
(* Letters are kept as the set of cells that are not blank.                *)
(***************************************************************************)
EXTENDS Integers, Sequences, FiniteSets, SequencesExt

CONSTANTS
    Rows,        \* console_screen_rows
    Cols,        \* console_screen_columns - 1, without the terminator
    History,     \* CONSOLE_TOTAL_ROWS - CONSOLE_BUFFER_ROWS
    Buffer,      \* CONSOLE_BUFFER_ROWS
    Chunks,      \* what one read from the shell may return
    MaxPrints    \* bound: chunks printed in a behaviour

VARIABLES
    cur, col,    \* console_cur_row, console_cur_column
    top,         \* console_top_row, the first row drawn
    force,       \* console_force_top_row_on_text
    reserve,     \* console_force_top_row_reserve
    cells,       \* the cells of console_text that are not blank
    colour,      \* console_current_color
    odd,         \* "wrapback": a backspace over the start of a row, which does
                 \* not give back its reserve; "rewound": a cursor movement in
                 \* a chunk that has already shifted its own first rows out
    prints

tvars == <<cur, col, top, force, reserve, cells, colour, odd, prints>>

Total == History + Buffer
FrontColour == 39   \* the default text colour

Clip(x, lo, hi) == IF x < lo THEN lo ELSE IF x > hi THEN hi ELSE x

Shift_Slip(s) ==
    IF s.cur # Total THEN s
    ELSE LET shift == s.cur - History IN
         [s EXCEPT !.cur = @ - shift,
                   !.cells = {<<q[1] - shift, q[2]>> : q \in {p \in s.cells : p[1] >= shift}}]

\* A full buffer is shifted up by the buffer rows.
Shift(s) ==
    IF s.cur # Total THEN s
    ELSE LET shift == s.cur - History IN
         [s EXCEPT !.cur = @ - shift, !.force = @ - shift,
                   !.cells = {<<q[1] - shift, q[2]>> : q \in {p \in s.cells : p[1] >= shift}}]

NewRow(s) == [s EXCEPT !.cur = @ + 1, !.reserve = @ + 1]

console_put_char_Slip(s, c) ==
    CASE c = "nl" -> Shift(NewRow(s))
      [] c = "cr" -> Shift([s EXCEPT !.col = 0])
      [] c = "bs" -> Shift(IF s.col > 0 THEN [s EXCEPT !.col = @ - 1] ELSE s)
      [] c \in {"bell", "tab"} -> Shift(s)
      [] OTHER -> LET p == [s EXCEPT !.cells = @ \cup {<<s.cur, s.col>>}, !.col = @ + 1] IN
             Shift(IF p.col > Cols THEN NewRow([p EXCEPT !.col = 0]) ELSE p)

console_put_char(s, c) ==
    CASE c = "nl" -> Shift(NewRow(s))
      [] c = "cr" -> Shift([s EXCEPT !.col = 0])
      [] c = "tab" -> LET end == s.col + (5 - (s.col % 5)) IN
             Shift(IF end >= Cols - 1
                   THEN NewRow([s EXCEPT !.col = 0, !.cells = @ \ {<<s.cur, j>> : j \in s.col .. Cols - 1}])
                   ELSE [s EXCEPT !.col = end, !.cells = @ \ {<<s.cur, j>> : j \in s.col .. end - 1}])
      [] c = "bs" -> Shift(IF s.col > 0 THEN [s EXCEPT !.col = @ - 1]
                           ELSE IF s.cur = 0 THEN s
                           ELSE [s EXCEPT !.col = Cols - 1, !.cur = @ - 1,
                                          !.odd = @ \cup {"wrapback"}])
      [] c = "bell" -> Shift(s)
      [] OTHER -> LET p == [s EXCEPT !.cells = @ \cup {<<s.cur, s.col>>}, !.col = @ + 1] IN
             Shift(IF p.col > Cols - 1 THEN NewRow([p EXCEPT !.col = 0]) ELSE p)

(***************************************************************************)
(* console_unescape for the sequences ESC [ p0 ; p1 <letter>.  A sequence  *)
(* of another kind is printed as text, after a caret.                      *)
(***************************************************************************)
MoveRow(s, r2) == [s EXCEPT !.cur = r2, !.reserve = 1 - (s.force + Rows - r2),
                            !.odd = IF s.force < 0 THEN @ \cup {"rewound"} ELSE @]

console_unescape_Slip(s, e) ==
    CASE e[1] = "A" -> MoveRow(s, s.cur - e[2])
      [] e[1] = "B" -> MoveRow(s, s.cur + e[2])
      [] e[1] = "C" -> [s EXCEPT !.col = @ + e[2]]
      [] OTHER      -> s

console_unescape(s, e) ==
    LET p0 == e[2]
        p1 == e[3]
    IN
    CASE e[1] = "A" -> LET r2 == s.cur - p0 IN MoveRow(s, IF s.force > r2 THEN s.force ELSE r2)
      [] e[1] = "B" -> LET r2 == s.cur + p0 IN
                       MoveRow(s, IF r2 >= s.force + Rows THEN s.force + Rows - 1 ELSE r2)
      [] e[1] = "C" -> [s EXCEPT !.col = IF @ + p0 >= Cols THEN Cols - 1 ELSE @ + p0]
      [] e[1] = "D" -> [s EXCEPT !.col = IF @ - p0 < 0 THEN 0 ELSE @ - p0]
      [] e[1] = "H" -> LET r2 == s.top + Clip(p0, 0, Rows - 1) IN
                       [s EXCEPT !.cur = r2, !.col = Clip(p1, 0, Cols - 1), !.force = s.top,
                                 !.reserve = 1 - (s.top + Rows - r2)]
      [] e[1] = "J" -> [s EXCEPT !.cells =
                           {q \in @ : q[1] < s.cur \/ (q[1] = s.cur /\ q[2] < s.col)}]
      [] e[1] = "K" -> [s EXCEPT !.cells = {q \in @ : ~ /\ q[1] = s.cur
                                                        /\ \/ p0 = 0 /\ q[2] >= s.col
                                                           \/ p0 = 1 /\ q[2] <= s.col
                                                           \/ p0 = 2}]
      [] e[1] = "m" -> [s EXCEPT !.colour = IF p0 \in {0, 39} THEN FrontColour
                                            ELSE IF p0 \in (30 .. 36) \cup (90 .. 96) THEN p0
                                            ELSE @]
      [] OTHER      -> FoldLeft(console_put_char, s, <<"^", "[", e[1]>>)

Put(s, x) == IF Len(x) = 1 THEN console_put_char(s, x[1]) ELSE console_unescape(s, x)

Screen == [cur |-> cur, col |-> col, top |-> top, force |-> force, reserve |-> reserve,
           cells |-> cells, colour |-> colour, odd |-> odd]

-----------------------------------------------------------------------------
\* ui_console_begin
Init ==
    /\ cur = 0 /\ col = 0 /\ top = 0 /\ force = 0 /\ reserve = 1 - Rows
    /\ cells = {} /\ colour = FrontColour /\ odd = {} /\ prints = 0

ui_console_print(chunk) ==
    /\ prints < MaxPrints /\ prints' = prints + 1
    /\ LET s == FoldLeft(Put, Screen, chunk)
           f == IF s.reserve > 0 THEN s.force + s.reserve ELSE s.force
       IN  /\ cur' = s.cur /\ col' = s.col /\ cells' = s.cells /\ colour' = s.colour
           /\ force' = f /\ reserve' = IF s.reserve > 0 THEN 0 ELSE s.reserve
           /\ top' = IF f < 0 THEN 0 ELSE f
           /\ odd' = s.odd

ui_console_scroll_up(n) ==
    /\ top' = IF top - n < 0 THEN 0 ELSE top - n
    /\ UNCHANGED <<cur, col, force, reserve, cells, colour, odd, prints>>

ui_console_scroll_down_Slip(n) ==
    top' = top + n /\ UNCHANGED <<cur, col, force, reserve, cells, colour, odd, prints>>

ui_console_scroll_down(n) ==
    /\ LET last == Clip(cur - Rows + 1, IF force > 0 THEN force ELSE 0, Total)
       IN  top' = IF top + n > last THEN last ELSE top + n
    /\ UNCHANGED <<cur, col, force, reserve, cells, colour, odd, prints>>

Next ==
    \/ \E chunk \in Chunks : ui_console_print(chunk)
    \/ ui_console_scroll_up(1) \/ ui_console_scroll_down(1)

-----------------------------------------------------------------------------
\* Whatever the shell prints, the cursor stays inside the line.
CursorInLine == col \in 0 .. Cols - 1

\* Rows that are indexed exist: the cursor's row, and every row the window
\* draws.  The two odd events make the row accounting lose count, so the
\* promise is for text without them.
RowsExist ==
    odd = {} =>
        cur \in 0 .. Total - 1 /\ top >= 0 /\ top + Rows <= Total

\* After a chunk is printed the window holds the cursor; scrolling by hand
\* moves the window, the next chunk brings it back.
CursorOnScreen ==
    odd = {} => (force <= cur /\ cur < force + Rows)

\* Scrolling down by hand ends at the cursor's page.
ScrollStops == odd = {} => (top = 0 \/ top <= cur)
=============================================================================
