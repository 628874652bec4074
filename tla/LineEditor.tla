------------------------------ MODULE LineEditor ------------------------------
(***************************************************************************)
(* terminal.c: the line editor of terminal_run over input_buffer[],        *)
(* buffer_pos and cursor_pos.  One step handles one character returned by  *)
(* keyboard_read, the whole handler with its shift loops included.         *)
(*                                                                         *)
(* The screen calls the handlers end with are recorded in echo:            *)
(*   - "redraw": redraw_input_line;                                        *)
(*   - "move": update_cursor_position;                                     *)
(*   - "enter": the newline, the command and the new prompt;               *)
(*   - "none": no call.                                                    *)
(* EditorConsole gives them their effect on the screen.  The command run   *)
(* by execute_command is recorded as executed.                             *)
(***************************************************************************)
EXTENDS Integers, Sequences, SequencesExt

CONSTANTS
    TERMINAL_BUFFER_SIZE,
    Inputs                   \* characters keyboard_read can return

VARIABLES input_buffer, buffer_pos, cursor_pos, echo, executed

editor_vars == <<input_buffer, buffer_pos, cursor_pos, echo, executed>>

CHAR_LEFT  == 3
CHAR_RIGHT == 4
CHAR_DEL   == 5
BACKSPACE  == 8
NEWLINE    == 10

Idx == 0..TERMINAL_BUFFER_SIZE - 1

\* The C string that starts at input_buffer[0].
RECURSIVE CStringFrom(_, _)
CStringFrom(b, i) ==
    IF i > TERMINAL_BUFFER_SIZE - 1 \/ b[i] = 0 THEN <<>>
    ELSE <<b[i]>> \o CStringFrom(b, i + 1)

\* terminal.c:28-34
clear_buffer ==
    /\ input_buffer' = [i \in Idx |-> 0]
    /\ buffer_pos' = 0
    /\ cursor_pos' = 0

\* terminal.c:109-115: the early return on an empty line, and the
\* terminator written at buffer_pos before the line is read as a string.
execute_command ==
    executed' = IF buffer_pos = 0 THEN <<>>
                ELSE CStringFrom([input_buffer EXCEPT ![buffer_pos] = 0], 0)

Left ==
    /\ cursor_pos > 0
    /\ cursor_pos' = cursor_pos - 1 /\ echo' = "move"
    /\ UNCHANGED <<input_buffer, buffer_pos, executed>>

Right ==
    /\ cursor_pos < buffer_pos
    /\ cursor_pos' = cursor_pos + 1 /\ echo' = "move"
    /\ UNCHANGED <<input_buffer, buffer_pos, executed>>

\* Mutant: Delete shifts from one position too far right.
DeleteShiftOffByOne ==
    [i \in Idx |-> IF cursor_pos + 1 <= i /\ i < buffer_pos - 1 THEN input_buffer[i + 1]
                   ELSE IF i = buffer_pos - 1 THEN 0 ELSE input_buffer[i]]

\* terminal.c:354-358: input_buffer[i] = input_buffer[i + 1] for cursor_pos <= i
\* < buffer_pos - 1, then the old last character is cleared.
DeleteShift ==
    [i \in Idx |-> IF cursor_pos <= i /\ i < buffer_pos - 1 THEN input_buffer[i + 1]
                   ELSE IF i = buffer_pos - 1 THEN 0 ELSE input_buffer[i]]

Delete ==
    /\ cursor_pos < buffer_pos
    /\ input_buffer' = DeleteShift
    /\ buffer_pos' = buffer_pos - 1 /\ echo' = "redraw"
    /\ UNCHANGED <<cursor_pos, executed>>

Enter ==
    /\ execute_command
    /\ clear_buffer
    /\ echo' = "enter"

\* terminal.c:373-378: the shift starts one before the cursor.
Backspace ==
    /\ cursor_pos > 0
    /\ input_buffer' = [i \in Idx |->
                          IF cursor_pos - 1 <= i /\ i < buffer_pos - 1 THEN input_buffer[i + 1]
                          ELSE IF i = buffer_pos - 1 THEN 0 ELSE input_buffer[i]]
    /\ buffer_pos' = buffer_pos - 1 /\ cursor_pos' = cursor_pos - 1
    /\ echo' = "redraw"
    /\ UNCHANGED executed

IsPrintable(c) == c >= 32 /\ c <= 126

\* Mutant: the capacity check leaves no room for the terminator.
InsertFitsNoTerminator == buffer_pos < TERMINAL_BUFFER_SIZE

\* terminal.c:385: one cell is kept for the '\0' of execute_command.
InsertFits == buffer_pos < TERMINAL_BUFFER_SIZE - 1

\* terminal.c:385-393: shift right from buffer_pos down to the cursor.
Insert(c) ==
    /\ InsertFits /\ IsPrintable(c)
    /\ input_buffer' = [i \in Idx |->
                          IF i = cursor_pos THEN c
                          ELSE IF cursor_pos < i /\ i <= buffer_pos THEN input_buffer[i - 1]
                          ELSE input_buffer[i]]
    /\ buffer_pos' = buffer_pos + 1 /\ cursor_pos' = cursor_pos + 1
    /\ echo' = "redraw"
    /\ UNCHANGED executed

\* A character no branch takes: 0, a control character with no case, a
\* printable one on a full line, or an edit key with nothing to act on.
Ignored(c) ==
    /\ \/ c = 0
       \/ c = CHAR_LEFT /\ cursor_pos = 0
       \/ c = CHAR_RIGHT /\ cursor_pos = buffer_pos
       \/ c = CHAR_DEL /\ cursor_pos = buffer_pos
       \/ c = BACKSPACE /\ cursor_pos = 0
       \/ c \notin {CHAR_LEFT, CHAR_RIGHT, CHAR_DEL, BACKSPACE, NEWLINE}
          /\ ~(InsertFits /\ IsPrintable(c))
    /\ echo' = "none"
    /\ UNCHANGED <<input_buffer, buffer_pos, cursor_pos, executed>>

\* terminal.c:327-395: terminal_run handling the character c.
terminal_run(c) ==
    \/ Ignored(c)
    \/ c = CHAR_LEFT /\ Left
    \/ c = CHAR_RIGHT /\ Right
    \/ c = CHAR_DEL /\ Delete
    \/ c = NEWLINE /\ Enter
    \/ c = BACKSPACE /\ Backspace
    \/ c \notin {0, CHAR_LEFT, CHAR_RIGHT, CHAR_DEL, BACKSPACE, NEWLINE} /\ Insert(c)

\* terminal.c:319-325 (terminal_init): the buffer starts cleared.
EditorInit ==
    /\ input_buffer = [i \in Idx |-> 0]
    /\ buffer_pos = 0 /\ cursor_pos = 0
    /\ echo = "enter" /\ executed = <<>>

EditorNext == \E c \in Inputs : terminal_run(c)

EditorSpec == EditorInit /\ [][EditorNext]_editor_vars

(* --- properties ---------------------------------------------------------- *)

EditorTypeOK ==
    /\ input_buffer \in [Idx -> 0..255]
    /\ buffer_pos \in 0..TERMINAL_BUFFER_SIZE - 1
    /\ cursor_pos \in 0..buffer_pos
    /\ echo \in {"redraw", "move", "enter", "none"}

\* The abstract line: the first buffer_pos characters, the cursor, the last command.
Abs == INSTANCE TextWithCursor
         WITH Printable <- {c \in Inputs : IsPrintable(c)},
              CAP <- TERMINAL_BUFFER_SIZE - 1,
              text <- [i \in 1..buffer_pos |-> input_buffer[i - 1]],
              cursor <- cursor_pos,
              cmd <- executed

(* terminal_run implements the line of text with a cursor: the shift loops *)
(* of insert, backspace and delete, the bounds on cursor_pos and           *)
(* buffer_pos, and the terminator that execute_command writes, together    *)
(* edit the line exactly as TextWithCursor says, and Enter runs exactly    *)
(* the characters typed.                                                   *)
LineRefinement == Abs!Spec
=============================================================================
