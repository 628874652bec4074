---------------------------- MODULE EditorConsole ----------------------------
(***************************************************************************)
(* terminal_run and the console together: each step is one character      *)
(* handled by the line editor (LineEditor), followed by the screen calls   *)
(* the handler ends with (terminal.c:36-71, 363-368), made on the console  *)
(* (Console).                                                              *)
(*                                                                         *)
(* execute_command is modelled for the lines the model can type.  These   *)
(* are made of letters that spell no command, so it prints                 *)
(* "Unknown command: <line>" (terminal.c:313-315).  The fixed text of the  *)
(* message is abstracted to MSG.                                           *)
(***************************************************************************)
EXTENDS LineEditor, Console

CONSTANTS TERMINAL_PROMPT, MSG

vars == <<input_buffer, buffer_pos, cursor_pos, echo, executed,
          cursor_x, cursor_y, vga_buffer, stray>>

prompt_length == Len(TERMINAL_PROMPT)

\* terminal.c:37-46, after the handler's update of the buffer.
update_cursor_position(s) ==
    LET new_x == (prompt_length + cursor_pos') % VGA_WIDTH
        new_y == s.y - ((prompt_length + buffer_pos') \div VGA_WIDTH)
                     + ((prompt_length + cursor_pos') \div VGA_WIDTH)
    IN vga_set_cursor(s, new_x, new_y)

\* terminal.c:49-71: back to the row the input is taken to start on, blank
\* buffer_pos + 1 cells, write the buffer, put the cursor back.
redraw_input_line(s) ==
    LET y  == s.y - ((prompt_length + buffer_pos') \div VGA_WIDTH)
        x  == prompt_length % VGA_WIDTH
        s1 == vga_write(vga_set_cursor(s, x, y), [i \in 1..buffer_pos' + 1 |-> SPACE])
        s2 == vga_write(vga_set_cursor(s1, x, y), [i \in 1..buffer_pos' |-> input_buffer'[i - 1]])
    IN update_cursor_position(s2)

\* terminal.c:363-368: the newline, the command's output, the new prompt.
EnterEcho(s) ==
    LET s1 == vga_putchar(s, NEWLINE)
        s2 == IF executed' = <<>> THEN s1 ELSE vga_write(s1, MSG \o executed' \o <<NEWLINE>>)
    IN vga_write(s2, TERMINAL_PROMPT)

Echo(s) ==
    CASE echo' = "redraw" -> redraw_input_line(s)
      [] echo' = "move"   -> update_cursor_position(s)
      [] echo' = "enter"  -> EnterEcho(s)
      [] OTHER            -> s

\* One iteration of the loop in _start (kernel.c:44-46).
Step(c) == terminal_run(c) /\ Store(Echo(Con))

(* terminal_init prints the prompt where the cursor stands.  At boot that  *)
(* is below the kernel's banner.  After "clear" it is row 0.  After a      *)
(* command's output it is any row down to the last.                        *)
Init ==
    /\ EditorInit
    /\ \E r \in 0..VGA_HEIGHT - 1 :
          LET s == vga_write([x |-> 0, y |-> r, buf |-> [i \in Cells |-> SPACE], stray |-> FALSE],
                             TERMINAL_PROMPT)
          IN /\ cursor_x = s.x /\ cursor_y = s.y
             /\ vga_buffer = s.buf /\ stray = s.stray

Next == \E c \in Inputs : Step(c)

Spec == Init /\ [][Next]_vars

(* Echoing the line being edited never writes outside the VGA text buffer. *)
(* redraw_input_line steps back (prompt_length + buffer_pos) / VGA_WIDTH   *)
(* rows from the cursor to find the start of the input.  This is stated    *)
(* by the comment at terminal.c:53, which says it returns to the start of  *)
(* the input line.                                                         *)
NoWriteOutsideScreen == ~stray
=============================================================================
