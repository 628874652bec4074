------------------------------- MODULE Commands -------------------------------
(***************************************************************************)
(* execute_command (terminal.c:109-317): how a line is turned into a       *)
(* command.  A line is the characters of input_buffer before buffer_pos,   *)
(* as byte codes.  The comparisons are the strcmp and strncmp of fs.c      *)
(* (CStrings) on the NUL-padded input_buffer.  Which command runs is the   *)
(* first comparison that matches: strcmp against the whole line for help, *)
(* clear, exit, test-formatting, test-colors, version, color and pwd, then *)
(* strncmp against the first 2 or 5 characters for ls, cd, mkdir, touch    *)
(* and rm.                                                                 *)
(*                                                                         *)
(* The effects kept here are those no other module has: the static colour  *)
(* counter of color, and exit, which powers off or halts.  The text the    *)
(* commands print is left out.  The file commands are Shell's, clear is    *)
(* Console's vga_clear.                                                    *)
(***************************************************************************)
EXTENDS Integers, Sequences, SequencesExt

CONSTANTS
    TERMINAL_BUFFER_SIZE,
    Lines,              \* lines the user may type
    Names               \* command -> its name, as bytes

VARIABLES line, ran, current_color, halted

vars == <<line, ran, current_color, halted>>

S == INSTANCE CStrings WITH Bytes <- 0..255, L <- TERMINAL_BUFFER_SIZE,
                            call <- "none", s1 <- <<>>, s2 <- <<>>, n <- 0, res <- 0

SPACE == 32
VGA_COLOR_LIGHT_GREEN == 10

\* A string as a NUL-padded buffer of TERMINAL_BUFFER_SIZE bytes.
Buffer(s) == [i \in 0..TERMINAL_BUFFER_SIZE - 1 |-> IF i < Len(s) THEN s[i + 1] ELSE 0]

Exact == <<"help", "clear", "exit", "test-formatting", "test-colors", "version", "color", "pwd">>
Prefix == <<"ls", "cd", "mkdir", "touch", "rm">>

\* terminal.c:122-316: the if/else-if chain, in its order.
Dispatch(l) ==
    LET b == Buffer(l)
        ex == {i \in 1..Len(Exact) : S!strcmp(b, Buffer(Names[Exact[i]])) = 0}
        px == {i \in 1..Len(Prefix) :
                 S!strncmp(b, Buffer(Names[Prefix[i]]), Len(Names[Prefix[i]])) = 0}
    IN IF ex # {} THEN Exact[Min(ex)]
       ELSE IF px # {} THEN Prefix[Min(px)]
       ELSE "unknown"

\* The characters before the first space, and what follows the leading spaces.
UntilSpace(s) == LET i == SelectInSeq(s, LAMBDA c : c = SPACE) IN IF i = 0 THEN s ELSE SubSeq(s, 1, i - 1)
DropSpaces(s) == LET i == SelectInSeq(s, LAMBDA c : c # SPACE) IN IF i = 0 THEN <<>> ELSE SubSeq(s, i, Len(s))

\* parse_args (terminal.c:73-93): skip the command word and the spaces
\* after it; arg1 runs to the next space.
ParseArg1(l) == UntilSpace(DropSpaces(SubSeq(l, Len(UntilSpace(l)) + 1, Len(l))))

\* terminal.c:222-226: current_color = (current_color + 1) % 16.
color == current_color' = (current_color + 1) % 16

(* exit (terminal.c:139-167) ends in cli, an ACPI write to port 0x604 and  *)
(* the BIOS call int $0x15.  Where the write powers the machine off, it    *)
(* stops.  Otherwise the int $0x15 faults in long mode, with no IDT, and   *)
(* the CPU resets.  The kernel then boots again, and its statics are       *)
(* initialised again.                                                      *)
PowerOff == halted' = TRUE /\ UNCHANGED current_color
Reset == halted' = FALSE /\ current_color' = VGA_COLOR_LIGHT_GREEN

\* execute_command on the line l.  An empty line returns at once
\* (terminal.c:110-112).
execute_command(l) ==
    /\ ~halted
    /\ line' = l
    /\ LET c == IF l = <<>> THEN "none" ELSE Dispatch(l)
       IN /\ ran' = [cmd |-> c, arg |-> IF c \in ToSet(Prefix) THEN ParseArg1(l) ELSE <<>>]
          /\ \/ c = "color" /\ color /\ UNCHANGED halted
             \/ c = "exit" /\ (PowerOff \/ Reset)
             \/ c \notin {"color", "exit"} /\ UNCHANGED <<current_color, halted>>

Init ==
    /\ line = <<>> /\ ran = [cmd |-> "none", arg |-> <<>>]
    /\ current_color = VGA_COLOR_LIGHT_GREEN /\ halted = FALSE

Next == \E l \in Lines : execute_command(l)

Spec == Init /\ [][Next]_vars

(* --- properties ------------------------------------------------------------ *)

(* A line runs a command only if its first word is that command's name.    *)
(* This is what help lists (terminal.c:124-134): commands as words, with   *)
(* their arguments after a space.  The strncmp tests of ls, cd, mkdir,     *)
(* touch and rm compare only the first 2 or 5 characters, so a line whose  *)
(* first word merely begins with one of those names runs it.               *)
CommandIsFirstWord ==
    ran.cmd \notin {"none", "unknown"} => UntilSpace(line) = Names[ran.cmd]
==============================================================================
