--------------------------- MODULE TextWithCursor ---------------------------
(***************************************************************************)
(* What the line editor of terminal_run promises: a line of text with a    *)
(* cursor in it.  Typing inserts at the cursor while the line is shorter   *)
(* than CAP.  Backspace removes the character before the cursor, Delete    *)
(* the one under it.  Left and Right move the cursor within the line.      *)
(* Enter hands the line to the command interpreter and starts an empty     *)
(* one.  cmd is the last line handed over; an empty line runs nothing.     *)
(***************************************************************************)
EXTENDS Integers, Sequences, SequencesExt

CONSTANTS Printable, CAP

VARIABLES text, cursor, cmd

vars == <<text, cursor, cmd>>

Init == text = <<>> /\ cursor = 0 /\ cmd = <<>>

Type(ch) ==
    /\ ch \in Printable /\ Len(text) < CAP
    /\ text' = InsertAt(text, cursor + 1, ch)
    /\ cursor' = cursor + 1
    /\ UNCHANGED cmd

Backspace ==
    /\ cursor > 0
    /\ text' = RemoveAt(text, cursor)
    /\ cursor' = cursor - 1
    /\ UNCHANGED cmd

Delete ==
    /\ cursor < Len(text)
    /\ text' = RemoveAt(text, cursor + 1)
    /\ UNCHANGED <<cursor, cmd>>

Left  == cursor > 0 /\ cursor' = cursor - 1 /\ UNCHANGED <<text, cmd>>
Right == cursor < Len(text) /\ cursor' = cursor + 1 /\ UNCHANGED <<text, cmd>>

Submit == cmd' = text /\ text' = <<>> /\ cursor' = 0

Next == Backspace \/ Delete \/ Left \/ Right \/ Submit \/ \E ch \in Printable : Type(ch)

Spec == Init /\ [][Next]_vars
=============================================================================
