------------------------------ MODULE Formatters ------------------------------
(***************************************************************************)
(* vga.c: the number formatters vga_put_dec, vga_put_hex and vga_put_bin,  *)
(* as operators from the argument to the characters written.  Their digit  *)
(* loops are translated as written.  They are checked against a reference  *)
(* that computes the digits from powers of the base.                       *)
(*                                                                         *)
(* TLC's integers are 32 bits, so the W-bit two's complement arithmetic    *)
(* of int64_t/uint64_t is kept at a width W the checker can enumerate.     *)
(* The argument is reduced mod 2^W, and -num wraps as it does in the code. *)
(* INT_MIN_TEXT is the literal vga_put_dec prints for the most negative    *)
(* value: "-9223372036854775808" at W = 64, and its W-bit counterpart in   *)
(* the MC module.                                                          *)
(***************************************************************************)
EXTENDS Integers, Sequences, SequencesExt

CONSTANTS W, INT_MIN_TEXT

VARIABLES call, arg, out

vars == <<call, arg, out>>

INT_MIN == -(2^(W - 1))
Signed == INT_MIN..(2^(W - 1) - 1)
Unsigned == 0..(2^W - 1)

\* A value of W-bit signed arithmetic (two's complement).
WrapSigned(x) == ((x - INT_MIN) % 2^W) + INT_MIN

MINUS == 45
ZERO == 48
\* vga.c:158
hex_digits == [d \in 0..15 |-> IF d < 10 THEN ZERO + d ELSE 55 + d]

\* vga.c:137-140: buf[i++] = '0' + num % 10; num /= 10, while num > 0.
RECURSIVE DecLoop(_, _)
DecLoop(num, buf) ==
    IF num > 0 THEN DecLoop(num \div 10, Append(buf, ZERO + (num % 10))) ELSE buf

\* Mutant: the INT64_MIN special case is missing.
put_dec_no_min(num) ==
    LET neg == num < 0
        m   == IF neg THEN WrapSigned(-num) ELSE num
        buf == IF m = 0 THEN <<ZERO>> ELSE DecLoop(m, <<>>)
    IN (IF neg THEN <<MINUS>> ELSE <<>>) \o Reverse(buf)

\* vga.c:115-152.  The characters are written from the end of buf back.
vga_put_dec(num) ==
    IF num = INT_MIN THEN INT_MIN_TEXT
    ELSE LET neg == num < 0
             m   == IF neg THEN WrapSigned(-num) ELSE num
             buf == IF m = 0 THEN <<ZERO>> ELSE DecLoop(m, <<>>)
         IN (IF neg THEN <<MINUS>> ELSE <<>>) \o Reverse(buf)

\* vga.c:161-164 and 181-184: do { buf[i++] = digit(num % base); num /= base }
\* while (num > 0).  num & 0xF and num >> 4 are num % 16 and num \div 16
\* for the unsigned num, and likewise for & 1 and >> 1.
RECURSIVE DoWhileLoop(_, _, _)
DoWhileLoop(num, base, buf) ==
    LET buf2 == Append(buf, hex_digits[num % base])
    IN IF num \div base > 0 THEN DoWhileLoop(num \div base, base, buf2) ELSE buf2

\* vga.c:155-173
vga_put_hex(num) == <<ZERO, 120>> \o Reverse(DoWhileLoop(num, 16, <<>>))

\* vga.c:176-193
vga_put_bin(num) == <<ZERO, 98>> \o Reverse(DoWhileLoop(num, 2, <<>>))

(* --- the reference -------------------------------------------------------- *)

\* The digits of m >= 0 in base b, most significant first, without leading
\* zeros (one digit for 0).
RefDigits(m, b) ==
    LET L == CHOOSE k \in 1..W + 1 : b^k > m /\ (k = 1 \/ b^(k - 1) <= m)
    IN [i \in 1..L |-> IF (m \div b^(L - i)) % b < 10 THEN ZERO + ((m \div b^(L - i)) % b)
                       ELSE 55 + ((m \div b^(L - i)) % b)]

Reference(kind, n) ==
    CASE kind = "dec" -> (IF n < 0 THEN <<MINUS>> ELSE <<>>) \o RefDigits(IF n < 0 THEN -n ELSE n, 10)
      [] kind = "hex" -> <<ZERO, 120>> \o RefDigits(n, 16)
      [] kind = "bin" -> <<ZERO, 98>> \o RefDigits(n, 2)

(* --- one call of a formatter per step ------------------------------------- *)

PutDec(n) == call' = "dec" /\ arg' = n /\ out' = vga_put_dec(n)
PutHex(n) == call' = "hex" /\ arg' = n /\ out' = vga_put_hex(n)
PutBin(n) == call' = "bin" /\ arg' = n /\ out' = vga_put_bin(n)

Init == call = "none" /\ arg = 0 /\ out = <<>>

Next == \/ \E n \in Signed : PutDec(n)
        \/ \E n \in Unsigned : PutHex(n) \/ PutBin(n)

Spec == Init /\ [][Next]_vars

(* vga_put_dec, vga_put_hex and vga_put_bin write exactly the sign, the     *)
(* prefix and the digits of their argument, with no leading zeros.  That   *)
(* includes 0, which the do-while loops and the zero case of vga_put_dec    *)
(* must print as one digit, and the most negative value, whose negation    *)
(* overflows (vga.c:117).                                                   *)
FormatsMatchReference == call = "none" \/ out = Reference(call, arg)
=============================================================================
