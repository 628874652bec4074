------------------------------- MODULE CStrings -------------------------------
(***************************************************************************)
(* The string helpers fs.c defines for the freestanding kernel (fs.c:11-59) *)
(* and terminal.c uses: strcpy, strcmp, strlen, strcat, strncpy, strncmp.   *)
(* A char buffer is a function from its indices 0..L-1 to byte values,     *)
(* read as unsigned.  Their loops are RECURSIVE operators, translated as   *)
(* written.  A write through dest past the end of its buffer is recorded   *)
(* in the over field of the result, not performed.                         *)
(*                                                                         *)
(* Each step calls one helper on buffers chosen from all the C strings     *)
(* that fit in L bytes.  The results are checked against the definitions   *)
(* of the C standard: lexicographic order of unsigned chars, and the       *)
(* concatenation and padding of sequences.                                 *)
(***************************************************************************)
EXTENDS Integers, Sequences, SequencesExt

CONSTANTS
    Bytes,      \* byte values, 0 included
    L           \* size of every buffer

VARIABLES call, s1, s2, n, res

vars == <<call, s1, s2, n, res>>

Buf == 0..L - 1
\* The buffers that hold a C string: a NUL somewhere in them.
Buffers == {b \in [Buf -> Bytes] : \E i \in Buf : b[i] = 0}

\* fs.c:28-33
RECURSIVE StrlenFrom(_, _)
StrlenFrom(s, i) == IF s[i] = 0 THEN i ELSE StrlenFrom(s, i + 1)
strlen(s) == StrlenFrom(s, 0)

\* Mutant: the difference of the chars as the signed char of the build.
DiffSigned(c1, c2) ==
    (IF c1 >= 128 THEN c1 - 256 ELSE c1) - (IF c2 >= 128 THEN c2 - 256 ELSE c2)

\* fs.c:25, 58: *(const unsigned char*)s1 - *(const unsigned char*)s2
Diff(c1, c2) == c1 - c2

\* fs.c:19-26
RECURSIVE StrcmpFrom(_, _, _)
StrcmpFrom(a, b, i) ==
    IF a[i] # 0 /\ a[i] = b[i] THEN StrcmpFrom(a, b, i + 1) ELSE Diff(a[i], b[i])
strcmp(a, b) == StrcmpFrom(a, b, 0)

\* fs.c:51-59: stops after n equal chars, and then returns 0.
RECURSIVE StrncmpFrom(_, _, _, _)
StrncmpFrom(a, b, k, i) ==
    IF k > 0 /\ a[i] # 0 /\ a[i] = b[i] THEN StrncmpFrom(a, b, k - 1, i + 1)
    ELSE IF k > 0 THEN Diff(a[i], b[i]) ELSE 0
strncmp(a, b, k) == StrncmpFrom(a, b, k, 0)

\* *dest = c, on a buffer value [buf, over].
Put(d, i, c) == IF i \in DOMAIN d.buf THEN [d EXCEPT !.buf[i] = c] ELSE [d EXCEPT !.over = TRUE]

\* fs.c:11-17: copy src from j into dest from i, then the NUL.
RECURSIVE CopyFrom(_, _, _, _)
CopyFrom(d, s, i, j) ==
    IF s[j] # 0 THEN CopyFrom(Put(d, i, s[j]), s, i + 1, j + 1) ELSE Put(d, i, 0)
strcpy(dest, src) == CopyFrom([buf |-> dest, over |-> FALSE], src, 0, 0)

\* fs.c:35-39: dest += strlen(dest); strcpy(dest, src)
strcat(dest, src) == CopyFrom([buf |-> dest, over |-> FALSE], src, strlen(dest), 0)

\* fs.c:41-49: copy up to n chars, then pad with NUL up to n.
RECURSIVE NcpyPad(_, _, _)
NcpyPad(d, k, i) == IF i < k THEN NcpyPad(Put(d, i, 0), k, i + 1) ELSE d
RECURSIVE NcpyCopy(_, _, _, _)
NcpyCopy(d, s, k, i) ==
    IF i < k /\ s[i] # 0 THEN NcpyCopy(Put(d, i, s[i]), s, k, i + 1) ELSE NcpyPad(d, k, i)
strncpy(dest, src, k) == NcpyCopy([buf |-> dest, over |-> FALSE], src, k, 0)

Result(c, a, b, k) ==
    CASE c = "strlen"  -> strlen(a)
      [] c = "strcmp"  -> strcmp(a, b)
      [] c = "strncmp" -> strncmp(a, b, k)
      [] c = "strcpy"  -> strcpy(a, b)
      [] c = "strcat"  -> strcat(a, b)
      [] c = "strncpy" -> strncpy(a, b, k)

Calls == {"strlen", "strcmp", "strncmp", "strcpy", "strcat", "strncpy"}

Init == call = "none" /\ s1 = [i \in Buf |-> 0] /\ s2 = s1 /\ n = 0 /\ res = 0

\* One call.  n matters to strncmp and strncpy only; it is up to the buffer
\* size, as terminal.c passes it.
Call(c, a, b, k) ==
    /\ call' = c /\ s1' = a /\ s2' = b /\ n' = k
    /\ res' = Result(c, a, b, k)

\* The caller goes on to the next call.
Return ==
    /\ call # "none"
    /\ call' = "none" /\ s1' = [i \in Buf |-> 0] /\ s2' = s1' /\ n' = 0 /\ res' = 0

Next == \/ /\ call = "none"
           /\ \E c \in Calls, a \in Buffers, b \in Buffers, k \in 0..L :
                 /\ (c \notin {"strncmp", "strncpy"} => k = 0)
                 /\ Call(c, a, b, k)
        \/ Return

Spec == Init /\ [][Next]_vars

(* --- the reference: the C standard's definitions -------------------------- *)

\* The string a buffer holds: the bytes before its first NUL.
CStr(b) == LET len == CHOOSE m \in Buf : b[m] = 0 /\ \A j \in 0..m - 1 : b[j] # 0
           IN [k \in 1..len |-> b[k - 1]]

Take(s, k) == SubSeq(s, 1, IF k < Len(s) THEN k ELSE Len(s))

\* Lexicographic order of byte sequences: a proper prefix, or a smaller byte
\* at the first difference.
LexLess(a, b) ==
    \/ Len(a) < Len(b) /\ a = SubSeq(b, 1, Len(a))
    \/ \E k \in 1..Len(a) : k <= Len(b) /\ SubSeq(a, 1, k - 1) = SubSeq(b, 1, k - 1) /\ a[k] < b[k]

Sign(x) == IF x < 0 THEN -1 ELSE IF x > 0 THEN 1 ELSE 0
Order(a, b) == IF a = b THEN 0 ELSE IF LexLess(a, b) THEN -1 ELSE 1

\* What each helper must give, in the standard's terms.
RefOK ==
    LET a == CStr(s1)
        b == CStr(s2)
    IN CASE call = "strlen"  -> res = Len(a)
         [] call = "strcmp"  -> Sign(res) = Order(a, b)
         [] call = "strncmp" -> Sign(res) = Order(Take(a, n), Take(b, n))
         [] call = "strcpy"  -> /\ res.over = (Len(b) >= L)
                                /\ ~res.over => CStr(res.buf) = b
         [] call = "strcat"  -> /\ res.over = (Len(a) + Len(b) >= L)
                                /\ ~res.over => CStr(res.buf) = a \o b
         [] call = "strncpy" -> res.buf = [i \in Buf |-> IF i >= n THEN s1[i]
                                                         ELSE IF i < Len(b) THEN s2[i] ELSE 0]
         [] OTHER            -> TRUE

(* strlen, strcmp, strncmp, strcpy, strcat and strncpy of fs.c do what the *)
(* C library functions they replace do, on every C string that fits the    *)
(* buffers: the order strcmp and strncmp return compares unsigned chars,   *)
(* strncmp stops after n chars and says equal, strcat writes past dest     *)
(* exactly when the two strings and the NUL do not fit, and strncpy pads   *)
(* with NUL.  fs_parse_path, fs_create_file and the command dispatch of    *)
(* execute_command rely on them.                                           *)
StringHelpersMatchReference == RefOK
==============================================================================
