------------------------------- MODULE Console -------------------------------
(***************************************************************************)
(* vga.c: the text console, with its cursor and the vga_buffer cells.      *)
(* The buffer has VGA_WIDTH x VGA_HEIGHT cells, indexed                    *)
(* y * VGA_WIDTH + x as in the code.  A cell holds the character, and the  *)
(* colour attribute is left out.  vga_putchar writes at                    *)
(* cursor_y * VGA_WIDTH + cursor_x without a bounds check, so a write      *)
(* outside the buffer lands in memory that is not modelled.  The model     *)
(* records that it happened in stray.                                      *)
(*                                                                         *)
(* The operations are operators from one console value                    *)
(* [x, y, buf, stray] to the next, because callers such as                 *)
(* redraw_input_line make many calls in one step.                          *)
(***************************************************************************)
EXTENDS Integers, Sequences, SequencesExt

CONSTANTS VGA_WIDTH, VGA_HEIGHT, OutChars

VARIABLES cursor_x, cursor_y, vga_buffer, stray

console_vars == <<cursor_x, cursor_y, vga_buffer, stray>>

SPACE == 32
Cells == 0..VGA_WIDTH * VGA_HEIGHT - 1

\* The console as a value, and the step that makes a value the next state.
Con == [x |-> cursor_x, y |-> cursor_y, buf |-> vga_buffer, stray |-> stray]
Store(s) == /\ cursor_x' = s.x /\ cursor_y' = s.y
            /\ vga_buffer' = s.buf /\ stray' = s.stray

\* vga_buffer[y * VGA_WIDTH + x] = vga_entry(c, vga_color)
PutCell(s, c) ==
    LET i == s.y * VGA_WIDTH + s.x
    IN IF i \in Cells THEN [s EXCEPT !.buf[i] = c] ELSE [s EXCEPT !.stray = TRUE]

\* vga.c:20-31
vga_scroll(s) ==
    [s EXCEPT !.buf = [i \in Cells |-> IF i < (VGA_HEIGHT - 1) * VGA_WIDTH
                                       THEN s.buf[i + VGA_WIDTH] ELSE SPACE]]

\* vga.c:101-112 (the port writes that move the hardware cursor are left out)
vga_set_cursor(s, x, y) == [s EXCEPT !.x = x, !.y = y]

\* Mutant: the wrap test lets the cursor stand one past the last column.
WrapLate(s) == IF s.x > VGA_WIDTH THEN [s EXCEPT !.x = 0, !.y = @ + 1] ELSE s

\* vga.c:78-81
Wrap(s) == IF s.x >= VGA_WIDTH THEN [s EXCEPT !.x = 0, !.y = @ + 1] ELSE s

\* vga.c:83-86
ScrollIfBelow(s) ==
    IF s.y >= VGA_HEIGHT THEN [vga_scroll(s) EXCEPT !.y = VGA_HEIGHT - 1] ELSE s

\* Mutant: vga_putchar without its tab case stores the tab in a cell.
vga_putchar_no_tab(s, c) ==
    CASE c = 10 -> ScrollIfBelow(Wrap([s EXCEPT !.x = 0, !.y = @ + 1]))
      [] c = 13 -> ScrollIfBelow(Wrap([s EXCEPT !.x = 0]))
      [] c = 8 /\ s.x > 0 -> PutCell([s EXCEPT !.x = @ - 1], SPACE)
      [] c = 8 /\ s.x <= 0 /\ s.y > 0 ->
            PutCell([s EXCEPT !.x = VGA_WIDTH - 1, !.y = @ - 1], SPACE)
      [] c = 8 -> ScrollIfBelow(Wrap(s))
      [] OTHER -> ScrollIfBelow(Wrap([PutCell(s, c) EXCEPT !.x = @ + 1]))

\* vga.c:49-89.  (x + 8) & ~7 is ((x + 8) \div 8) * 8 for the x >= 0 that
\* reach it.  A backspace that moves back returns before the wrap and
\* scroll tests.
vga_putchar(s, c) ==
    CASE c = 10 -> ScrollIfBelow(Wrap([s EXCEPT !.x = 0, !.y = @ + 1]))
      [] c = 13 -> ScrollIfBelow(Wrap([s EXCEPT !.x = 0]))
      [] c = 9  -> ScrollIfBelow(Wrap([s EXCEPT !.x = ((@ + 8) \div 8) * 8]))
      [] c = 8 /\ s.x > 0 -> PutCell([s EXCEPT !.x = @ - 1], SPACE)
      [] c = 8 /\ s.x <= 0 /\ s.y > 0 ->
            PutCell([s EXCEPT !.x = VGA_WIDTH - 1, !.y = @ - 1], SPACE)
      [] c = 8 -> ScrollIfBelow(Wrap(s))
      [] OTHER -> ScrollIfBelow(Wrap([PutCell(s, c) EXCEPT !.x = @ + 1]))

\* vga.c:91-95, 256-260: vga_write and vga_puts put each character in turn.
vga_write(s, str) == FoldLeft(vga_putchar, s, str)

\* vga.c:38-47
vga_clear(s) == [s EXCEPT !.buf = [i \in Cells |-> SPACE], !.x = 0, !.y = 0]

\* vga.c:33-36
ConsoleInit ==
    /\ vga_buffer = [i \in Cells |-> SPACE]
    /\ cursor_x = 0 /\ cursor_y = 0 /\ stray = FALSE

Putchar(c) == Store(vga_putchar(Con, c))
Clear == Store(vga_clear(Con))
\* Callers move the cursor only to cells of the screen.
SetCursor(x, y) == Store(vga_set_cursor(Con, x, y))

ConsoleNext ==
    \/ \E c \in OutChars : Putchar(c)
    \/ Clear
    \/ \E x \in 0..VGA_WIDTH - 1, y \in 0..VGA_HEIGHT - 1 : SetCursor(x, y)

ConsoleSpec == ConsoleInit /\ [][ConsoleNext]_console_vars

(* --- properties ---------------------------------------------------------- *)

(* The cells hold printable characters only: vga_putchar interprets      *)
(* newline, carriage return, tab and backspace and never stores them.     *)
ConsoleTypeOK ==
    /\ cursor_x \in Int /\ cursor_y \in Int
    /\ vga_buffer \in [Cells -> 32..126] /\ stray \in BOOLEAN

(* Every character vga_putchar writes lands inside vga_buffer, and the     *)
(* cursor it leaves is a cell of the screen.  This holds through newline,  *)
(* tab, backspace across a line start, the wrap at the last column and     *)
(* the scroll at the last row.                                             *)
ConsoleStaysOnScreen ==
    /\ ~stray
    /\ cursor_x \in 0..VGA_WIDTH - 1 /\ cursor_y \in 0..VGA_HEIGHT - 1
=============================================================================
