-------------------------- MODULE MC_EditorConsole --------------------------
(* A 4 x 3 screen, a two-character prompt "> ", room for four characters  *)
(* of input, and "?" standing for the text of the unknown-command         *)
(* message.  With these, a line of two characters already reaches the     *)
(* last column.                                                           *)
EXTENDS EditorConsole, TLC

MCPrompt == <<62, 32>>
MCMsg == <<63>>
MCInputs == {CHAR_LEFT, CHAR_RIGHT, CHAR_DEL, BACKSPACE, NEWLINE, 97}
=============================================================================
