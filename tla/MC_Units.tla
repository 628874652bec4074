------------------------------- MODULE MC_Units -------------------------------
(***************************************************************************)
(* The kernel's units and the UEFI loader checked side by side:           *)
(*   Fm, Cs, Pf  the number formatters of vga.c, the string helpers of     *)
(*               fs.c and vga_printf, each against its reference;          *)
(*   Le          terminal_run's line editor, refining TextWithCursor;      *)
(*   Co          vga_putchar on the text screen;                           *)
(*   Kb          the keyboard, controller and keyboard_read;               *)
(*   Ul          uefi_loader.c's UefiMain on a faulty firmware.            *)
(* Their variables are disjoint and none calls another here, so a step of  *)
(* one is taken only while every other is at rest: the three libraries     *)
(* between calls, every other unit in its initial state.  The state space  *)
(* is then the sum of the units' spaces, not their product, and a          *)
(* behaviour in which the keyboard has started is the keyboard's alone,    *)
(* so the fairness of Keyboard's FairSpec carries over unchanged.          *)
(*                                                                         *)
(* Bounds, per unit:                                                       *)
(*   Fm: W = 8, every int8_t and uint8_t argument;                         *)
(*   Cs: buffers of 3 bytes over 'a', 'b' and a byte above 127;            *)
(*   Pf: formats of up to four tokens, -128 as a %d argument;              *)
(*   Le: a buffer of 5 cells, two printable characters, every control     *)
(*       character terminal_run has a case for and two it ignores;         *)
(*   Co: a 4 x 2 screen, so a tab reaches the wrap and a second line       *)
(*       scrolls;                                                          *)
(*   Kb: 'a', Left and both shifts, two bytes queued, two presses per key; *)
(*   Ul: a kernel of 2 units, every call that touches the device or        *)
(*       allocates able to fail.                                           *)
(***************************************************************************)
EXTENDS Integers, Sequences, TLC

CONSTANTS
    W, INT_MIN_TEXT, Bytes, L, Tokens, Tails, MAX_TOKENS, ArgValues, Strings,
    TERMINAL_BUFFER_SIZE, Inputs,
    VGA_WIDTH, VGA_HEIGHT, OutChars,
    Keys, scancode_to_char, scancode_to_char_shift, TABLE_SIZE, MAX_QUEUE, MAX_PRESSES,
    Faulty, KERNEL_SIZE, INFO_SIZE, INIT_KEY

VARIABLES
    fcall, farg, fout,                               \* Formatters
    scall, s1, s2, sn, res,                          \* CStrings
    tokens, tail, va, printed,                       \* Printf
    input_buffer, buffer_pos, cursor_pos, echo, executed,   \* LineEditor
    cursor_x, cursor_y, vga_buffer, stray,           \* Console
    shift_pressed, last_scancode, key_held, port, kbq, held, typematic,
    out, presses, reported, down_read,               \* Keyboard
    pc, fileSize, readSize, loaded, ret,             \* UefiLoader
    open, allocated, mapKey, boot_services, pos      \* its firmware

fvars == <<fcall, farg, fout>>
svars == <<scall, s1, s2, sn, res>>
pvars == <<tokens, tail, va, printed>>
evars == <<input_buffer, buffer_pos, cursor_pos, echo, executed>>
cvars == <<cursor_x, cursor_y, vga_buffer, stray>>
kvars == <<shift_pressed, last_scancode, key_held, port, kbq, held, typematic,
           out, presses, reported, down_read>>
uvars == <<pc, fileSize, readSize, loaded, ret, open, allocated, mapKey, boot_services, pos>>
vars == <<fvars, svars, pvars, evars, cvars, kvars, uvars>>

Fm == INSTANCE Formatters WITH call <- fcall, arg <- farg, out <- fout
Cs == INSTANCE CStrings WITH call <- scall, n <- sn
Pf == INSTANCE Printf
Le == INSTANCE LineEditor
Co == INSTANCE Console
Kb == INSTANCE Keyboard
Ul == INSTANCE UefiLoader

(* --- constants ------------------------------------------------------------ *)

\* "-128", the text of INT_MIN at W = 8
MCIntMinText == <<45, 49, 50, 56>>
MCBytes == {0, 97, 98, 200}

Lit(c) == [chars |-> <<c>>, kind |-> "lit"]
Cv(s, k) == [chars |-> s, kind |-> k]

\* The literals 'a' and 'd' (a 'd' may follow "%l"), every conversion
\* vga_printf has, %%, and the unknown conversions %l and %a.
MCTokens ==
    { Lit(97), Lit(100),
      Cv(<<37, 100>>, "dec"), Cv(<<37, 108, 108, 100>>, "dec"),
      Cv(<<37, 120>>, "hex"), Cv(<<37, 98>>, "bin"),
      Cv(<<37, 115>>, "str"), Cv(<<37, 99>>, "chr"),
      Cv(<<37, 37>>, "pct"), Cv(<<37, 108>>, "unknown"), Cv(<<37, 97>>, "unknown") }

\* Two char* arguments: the empty string and "ab".
MCStrings == (1 :> <<>>) @@ (2 :> <<97, 98>>)

\* 0, a positive value and the most negative; the empty string and "ab".
MCArgValues ==
    [k \in {"dec", "hex", "bin", "str", "chr"} |->
        CASE k = "dec" -> {0, 42, -128}
          [] k = "hex" -> {0, 255}
          [] k = "bin" -> {5}
          [] k = "str" -> DOMAIN MCStrings
          [] k = "chr" -> {97}]

MCNoTail == {<<>>}

\* Two printable characters, the control characters terminal_run handles
\* (CHAR_LEFT 3, CHAR_RIGHT 4, CHAR_DEL 5, '\b' 8, '\n' 10), and 0 and
\* Ctrl-A (CHAR_UP), which it ignores.  Written as numbers: a constant of an
\* instance is not defined through the instance itself.
MCInputs == {0, 1, 3, 4, 5, 8, 10, 97, 98}

MCOutChars == {8, 9, 10, 13, 97}

KEY_A == 30
KEY_LEFT == 75
KEY_LSHIFT == 42
KEY_RSHIFT == 54
MCKeys == {KEY_A, KEY_LEFT, KEY_LSHIFT, KEY_RSHIFT}
\* The entries of the tables at keyboard.c:5 and :14 for the modelled codes.
MCTable == (0 :> 0) @@ (KEY_A :> 97) @@ (KEY_LSHIFT :> 0) @@ (KEY_RSHIFT :> 0)
MCTableShift == (0 :> 0) @@ (KEY_A :> 65) @@ (KEY_LSHIFT :> 0) @@ (KEY_RSHIFT :> 0)

(* --- the composition ------------------------------------------------------ *)

FIdle == fcall = "none"
SIdle == scall = "none"
PIdle == printed = Pf!Idle
LibsIdle == FIdle /\ SIdle /\ PIdle
\* The units other than the libraries, in their initial states.
ERest == Le!EditorInit
CRest == Co!ConsoleInit
KRest == Kb!Init
URest == Ul!Init

\* The formatters' harness calls from any state; here a call is made from
\* idle and followed by a return.
FReturn == ~FIdle /\ fcall' = "none" /\ farg' = 0 /\ fout' = <<>>

LibStep ==
    /\ ERest /\ CRest /\ KRest /\ URest
    /\ \/ LibsIdle /\ Fm!Next /\ UNCHANGED <<svars, pvars>>
       \/ FReturn /\ UNCHANGED <<svars, pvars>>
       \/ FIdle /\ PIdle /\ Cs!Next /\ UNCHANGED <<fvars, pvars>>
       \/ FIdle /\ SIdle /\ Pf!Next /\ UNCHANGED <<fvars, svars>>
    /\ UNCHANGED <<evars, cvars, kvars, uvars>>

EditorStep ==
    LibsIdle /\ CRest /\ KRest /\ URest /\ Le!EditorNext /\ UNCHANGED <<fvars, svars, pvars, cvars, kvars, uvars>>
ConsoleStep ==
    LibsIdle /\ ERest /\ KRest /\ URest /\ Co!ConsoleNext /\ UNCHANGED <<fvars, svars, pvars, evars, kvars, uvars>>
KeyboardRest == LibsIdle /\ ERest /\ CRest /\ URest /\ UNCHANGED <<fvars, svars, pvars, evars, cvars, uvars>>
KeyboardStep == KeyboardRest /\ Kb!Next
LoaderStep ==
    LibsIdle /\ ERest /\ CRest /\ KRest /\ Ul!Next /\ UNCHANGED <<fvars, svars, pvars, evars, cvars, kvars>>

Init == Fm!Init /\ Cs!Init /\ Pf!Init /\ Le!EditorInit /\ Co!ConsoleInit /\ Kb!Init /\ Ul!Init

Next == LibStep \/ EditorStep \/ ConsoleStep \/ KeyboardStep \/ LoaderStep

\* Keyboard's fairness (see FairSpec there): a byte queued is eventually
\* read fresh.
Spec == Init /\ [][Next]_vars /\ WF_vars(KeyboardRest /\ Kb!PollFresh)

(* --- properties ----------------------------------------------------------- *)
(* Stated and commented in the unit modules; re-exported by name.            *)

\* vga_put_dec, vga_put_hex and vga_put_bin print the digits of their argument.
FormatsMatchReference == Fm!FormatsMatchReference

\* fs.c's string helpers agree with the C library functions they replace.
StringHelpersMatchReference == Cs!StringHelpersMatchReference

\* vga_printf prints each conversion of its format with the next argument.
PrintfMatchesReference == Pf!PrintfMatchesReference

\* terminal_run keeps the line NUL-terminated inside input_buffer, with the
\* cursor within it.
EditorTypeOK == Le!EditorTypeOK

\* terminal_run's edits are those of a line with a cursor.
LineRefinement == Le!LineRefinement

\* vga_putchar keeps the cursor and the cells it writes on the screen.
ConsoleTypeOK == Co!ConsoleTypeOK
ConsoleStaysOnScreen == Co!ConsoleStaysOnScreen

\* keyboard_read's decoder state keeps its type.
KeyboardTypeOK == Kb!TypeOK

\* Each press of a character key read by keyboard_read yields one character.
OnePerPress == Kb!OnePerPress

\* Every press of a character key is eventually typed.
EveryPressTyped == Kb!EveryPressTyped

\* UefiMain closes every file it opened, and frees its buffer on an error.
ReturnReleasesResources == Ul!ReturnReleasesResources
================================================================================
