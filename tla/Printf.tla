-------------------------------- MODULE Printf --------------------------------
(***************************************************************************)
(* vga_printf (vga.c:196-241): the scan of the format string and the       *)
(* dispatch of each conversion to the formatters of Formatters, as an      *)
(* operator from a format and its arguments to the characters handed to    *)
(* vga_putchar.                                                            *)
(*                                                                         *)
(* A format is a sequence of character codes.  Its NUL is at Len + 1.      *)
(* What follows the NUL in memory is not modelled.  A scan that steps over *)
(* the NUL sets over and stops.  The arguments are the values of the       *)
(* va_list in order.  Each is read by the va_arg of its conversion, at the *)
(* width W of Formatters; a char* is a pointer into Strings.               *)
(*                                                                         *)
(* Formats are built from Tokens: a literal character, or a conversion     *)
(* with the kind of argument it takes.  A format may end in a Tail: a      *)
(* piece of format that is not a whole conversion.                         *)
(***************************************************************************)
EXTENDS Integers, Sequences, SequencesExt

CONSTANTS
    W, INT_MIN_TEXT,      \* as in Formatters
    Tokens,               \* [chars : a format piece, kind : its conversion]
    Tails,                \* format pieces that may end a format
    MAX_TOKENS,           \* tokens in a format
    ArgValues,            \* kind -> the values callers pass for it
    Strings               \* char* -> the characters it points to, before the NUL

VARIABLES tokens, tail, va, printed

vars == <<tokens, tail, va, printed>>

F == INSTANCE Formatters WITH call <- "none", arg <- 0, out <- <<>>

PERCENT == 37
CHAR_L  == 108
CHAR_D  == 100

\* The character at format index i: the NUL just past the end.
Ch(f, i) == IF i <= Len(f) THEN f[i] ELSE 0

\* The next va_arg of the list st.va.
Arg(st) == IF st.next <= Len(st.va) THEN st.va[st.next] ELSE 0
Emit(st, s) == [st EXCEPT !.out = @ \o s]
Consume(st, s) == [st EXCEPT !.out = @ \o s, !.next = @ + 1]

\* vga.c:209-232: the switch on the character after '%'.
Conv(st, c) ==
    CASE c = CHAR_D -> Consume(st, F!vga_put_dec(Arg(st)))
      [] c = 120    -> Consume(st, F!vga_put_hex(Arg(st)))
      [] c = 98     -> Consume(st, F!vga_put_bin(Arg(st)))
      [] c = 115    -> Consume(st, Strings[Arg(st)])
      [] c = 99     -> Consume(st, <<Arg(st)>>)
      [] c = PERCENT -> Emit(st, <<PERCENT>>)
      [] OTHER      -> Emit(st, <<PERCENT, c>>)

\* Mutant: the "ll" modifier is skipped one character short.
AfterLLOne(j) == j + 1

\* vga.c:205: format += 2 over "ll".
AfterLL(j) == j + 2

\* vga.c:200-238: the while loop.  Each pass ends with format++.
RECURSIVE Scan(_, _, _)
Scan(f, i, st) ==
    IF i > Len(f) + 1 THEN [st EXCEPT !.over = TRUE]
    ELSE IF Ch(f, i) = 0 THEN st
    ELSE IF Ch(f, i) # PERCENT THEN Scan(f, i + 1, Emit(st, <<Ch(f, i)>>))
    ELSE LET j == i + 1 IN
         IF Ch(f, j) = CHAR_L /\ Ch(f, j + 1) = CHAR_L
         THEN LET k == AfterLL(j) IN
              IF Ch(f, k) = CHAR_D
              THEN Scan(f, k + 1, Consume(st, F!vga_put_dec(Arg(st))))
              ELSE Scan(f, k + 1, st)
         ELSE Scan(f, j + 1, Conv(st, Ch(f, j)))

vga_printf(f, a) == Scan(f, 1, [out |-> <<>>, next |-> 1, over |-> FALSE, va |-> a])

(* --- one call per step ------------------------------------------------------ *)

Format(ts, t) == FoldLeft(LAMBDA acc, x : acc \o x.chars, <<>>, ts) \o t

\* The arguments a caller passes: one of the right kind per conversion.
Conversions(ts) == SelectSeq(ts, LAMBDA x : x.kind \notin {"lit", "pct", "unknown"})

RECURSIVE ArgSeqs(_)
ArgSeqs(cs) ==
    IF cs = <<>> THEN {<<>>}
    ELSE {<<v>> \o r : v \in ArgValues[Head(cs).kind], r \in ArgSeqs(Tail(cs))}

ArgLists(ts) == ArgSeqs(Conversions(ts))

Idle == [out |-> <<>>, next |-> 1, over |-> FALSE, va |-> <<>>]

Init == tokens = <<>> /\ tail = <<>> /\ va = <<>> /\ printed = Idle

Call(ts, t, a) ==
    /\ tokens' = ts /\ tail' = t /\ va' = a
    /\ printed' = vga_printf(Format(ts, t), a)

Return == printed # Idle /\ tokens' = <<>> /\ tail' = <<>> /\ va' = <<>> /\ printed' = Idle

Next ==
    \/ /\ printed = Idle
       /\ \E m \in 1..MAX_TOKENS, t \in Tails :
            \E ts \in [1..m -> Tokens] : \E a \in ArgLists(ts) : Call(ts, t, a)
    \/ Return

Spec == Init /\ [][Next]_vars

(* --- the reference ------------------------------------------------------------ *)

\* What a token prints, given its argument.
Piece(x, v) ==
    CASE x.kind = "lit"     -> x.chars
      [] x.kind = "dec"     -> F!Reference("dec", v)
      [] x.kind = "hex"     -> F!Reference("hex", v)
      [] x.kind = "bin"     -> F!Reference("bin", v)
      [] x.kind = "str"     -> Strings[v]
      [] x.kind = "chr"     -> <<v>>
      [] x.kind = "pct"     -> <<PERCENT>>
      [] x.kind = "unknown" -> x.chars

\* The tokens printed in turn, each conversion with the next argument.
RECURSIVE RefOut(_, _)
RefOut(ts, a) ==
    IF ts = <<>> THEN <<>>
    ELSE IF Head(ts).kind \in {"lit", "pct", "unknown"}
         THEN Piece(Head(ts), 0) \o RefOut(Tail(ts), a)
         ELSE Piece(Head(ts), Head(a)) \o RefOut(Tail(ts), Tail(a))

(* vga_printf prints a format made of the conversions it supports exactly  *)
(* as its tokens say: every %d, %lld, %x, %b, %s and %c takes the next     *)
(* argument, in order, and prints it with its formatter; %% and unknown    *)
(* conversions print themselves and take none; and all the arguments      *)
(* passed are used.  The scan handles the "ll" modifier with look-ahead    *)
(* and a skip, which must not lose or add a character.                     *)
PrintfMatchesReference ==
    printed # Idle =>
        /\ ~printed.over
        /\ printed.out = RefOut(tokens, va)
        /\ printed.next = Len(va) + 1

(* vga_printf never reads past the NUL of its format.  The loop tests      *)
(* *format only at the top of each pass, and each conversion steps over   *)
(* one character after the '%' or the "ll" whatever it is.                 *)
PrintfStaysInFormat == ~printed.over
==============================================================================
