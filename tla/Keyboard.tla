------------------------------ MODULE Keyboard ------------------------------
(***************************************************************************)
(* keyboard.c: keyboard_read, polled by terminal_run, decodes one byte of  *)
(* PS/2 set-1 scancodes read from port 0x60 into a character, or 0.        *)
(*                                                                         *)
(* The keyboard is modelled as well as the decoder.                        *)
(*   - The user presses and releases keys (Press, Release).                *)
(*   - The keyboard repeats the make code of the last key pressed while it *)
(*     is still held (Repeat, typematic repeat).                           *)
(*   - The bytes queue in the keyboard, in order (kbq).                    *)
(*   - keyboard_get_scancode waits on status bit 1 (input buffer full),    *)
(*     not on bit 0 (output buffer full).  So a read takes the next queued *)
(*     byte if the controller has one, or else the byte already in the     *)
(*     data port again (Poll).                                             *)
(* Scancodes and characters are numbers, as in the code.                   *)
(***************************************************************************)
EXTENDS Integers, Sequences, FiniteSets

CONSTANTS
    Keys,                    \* make codes of the physical keys modelled
    scancode_to_char,        \* keyboard.c:5, restricted to the modelled indices
    scancode_to_char_shift,  \* keyboard.c:14, likewise
    TABLE_SIZE,              \* sizeof(scancode_to_char)
    MAX_QUEUE,               \* bytes the keyboard holds before the poll
    MAX_PRESSES              \* presses of each key in a behaviour

VARIABLES
    shift_pressed, last_scancode, key_held,  \* decoder state (keyboard.c:29,54,55)
    port,                                   \* the byte in the data port 0x60
    kbq,                                    \* bytes queued in the keyboard
    held,                                   \* keys physically down
    typematic,                              \* key being auto-repeated, or 0
    out,                                    \* value of the last keyboard_read
    presses, reported,                      \* per key: presses read, characters returned
    down_read                               \* keys whose last byte read was a make

vars == <<shift_pressed, last_scancode, key_held, port, kbq, held, typematic,
          out, presses, reported, down_read>>

KEY_LSHIFT == 42
KEY_RSHIFT == 54
Shifts == {KEY_LSHIFT, KEY_RSHIFT}
BREAK == 128                               \* bit 0x80 of a break code
\* The switch at keyboard.c:80: arrows and Delete give the control characters.
Special == [k \in {72, 80, 75, 77, 83} |->
              CASE k = 72 -> 1 [] k = 80 -> 2 [] k = 75 -> 3 [] k = 77 -> 4 [] k = 83 -> 5]

CharKeys == Keys \ Shifts

ASSUME Keys \subseteq 1..127 /\ MAX_QUEUE >= 1

\* The character a make code decodes to (keyboard.c:80-103).
Decode(sc) ==
    IF sc \in DOMAIN Special THEN Special[sc]
    ELSE IF sc < TABLE_SIZE
         THEN IF shift_pressed = 1 THEN scancode_to_char_shift[sc] ELSE scancode_to_char[sc]
         ELSE 0

(* --- the hardware -------------------------------------------------------- *)

Send(b) == /\ Len(kbq) < MAX_QUEUE
           /\ kbq' = Append(kbq, b)

\* A byte in the queue: the code and whether it is the first make of a press.
Press(k) ==
    /\ k \notin held
    /\ presses[k] < MAX_PRESSES
    /\ Send([sc |-> k, fresh |-> TRUE])
    /\ held' = held \cup {k}
    /\ typematic' = k
    /\ UNCHANGED <<shift_pressed, last_scancode, key_held, port, out, presses, reported, down_read>>

Repeat ==
    /\ typematic # 0
    /\ Send([sc |-> typematic, fresh |-> FALSE])
    /\ UNCHANGED <<shift_pressed, last_scancode, key_held, port, held, typematic,
                   out, presses, reported, down_read>>

Release(k) ==
    /\ k \in held
    /\ Send([sc |-> k + BREAK, fresh |-> TRUE])
    /\ held' = held \ {k}
    /\ typematic' = IF typematic = k THEN 0 ELSE typematic
    /\ UNCHANGED <<shift_pressed, last_scancode, key_held, port, out, presses, reported, down_read>>

(* --- keyboard_read ------------------------------------------------------- *)

\* Mutant: break codes are not told apart from make codes.
IsBreakIgnored(sc) == FALSE

\* keyboard.c:70: bit 0x80 marks the release of a key.
IsBreak(sc) == sc >= BREAK

\* Mutant: the break code is compared without masking off bit 0x80.
ReleaseMatchesUnmasked(sc) == sc = last_scancode

\* keyboard.c:72: the break code is that of the last key reported.
ReleaseMatches(sc) == sc - BREAK = last_scancode

\* keyboard_read applied to scancode sc (keyboard.c:51-113).
keyboard_read(sc) ==
    \/ /\ sc \in Shifts
       /\ shift_pressed' = 1 /\ out' = 0
       /\ UNCHANGED <<last_scancode, key_held>>
    \/ /\ sc - BREAK \in Shifts
       /\ shift_pressed' = 0 /\ out' = 0
       /\ UNCHANGED <<last_scancode, key_held>>
    \/ /\ IsBreak(sc) /\ sc - BREAK \notin Shifts
       /\ out' = 0 /\ UNCHANGED shift_pressed
       /\ \/ ReleaseMatches(sc) /\ last_scancode' = 0 /\ key_held' = 0
          \/ ~ReleaseMatches(sc) /\ UNCHANGED <<last_scancode, key_held>>
    \/ /\ ~IsBreak(sc) /\ sc \notin Shifts /\ sc - BREAK \notin Shifts
       /\ UNCHANGED shift_pressed
       /\ \/ /\ sc = last_scancode /\ key_held = 1
             /\ out' = 0 /\ UNCHANGED <<last_scancode, key_held>>
          \/ /\ ~(sc = last_scancode /\ key_held = 1)
             /\ out' = Decode(sc) /\ last_scancode' = sc /\ key_held' = 1

\* What the byte read tells the observer: which keys are down, how many presses.
Observe(b) ==
    /\ presses' = IF b.fresh /\ b.sc \in Keys THEN [presses EXCEPT ![b.sc] = @ + 1] ELSE presses
    /\ down_read' = IF ~b.fresh THEN down_read
                    ELSE IF b.sc \in Keys THEN down_read \cup {b.sc}
                    ELSE down_read \ {b.sc - BREAK}

\* What terminal_run counts as typed: a character out of a key's make code.
CountReported ==
    LET k == IF port' >= BREAK THEN 0 ELSE port'
    IN reported' = IF out' # 0 /\ k \in Keys THEN [reported EXCEPT ![k] = @ + 1] ELSE reported

\* Mutant: keyboard_wait with its status test inverted, spinning while the
\* controller holds a byte: the next read never returns a byte it has.
PollFreshInvertedWait == FALSE

\* keyboard_get_scancode (keyboard.c:38-41) returning the next byte the
\* controller has, then keyboard_read on it.
PollFresh ==
    /\ kbq # <<>>
    /\ port' = Head(kbq).sc /\ kbq' = Tail(kbq)
    /\ keyboard_read(Head(kbq).sc) /\ Observe(Head(kbq))
    /\ CountReported
    /\ UNCHANGED <<held, typematic>>

\* keyboard_get_scancode returning the byte already in port 0x60 again,
\* because keyboard_wait tests bit 1 (keyboard.c:33), not bit 0.
PollStale ==
    /\ port' = port /\ kbq' = kbq
    /\ keyboard_read(port) /\ UNCHANGED <<presses, down_read>>
    /\ CountReported
    /\ UNCHANGED <<held, typematic>>

\* One call of keyboard_read from terminal_run.
Poll == PollFresh \/ PollStale

Init ==
    /\ shift_pressed = 0 /\ last_scancode = 0 /\ key_held = 0
    /\ port = 0 /\ kbq = <<>>
    /\ held = {} /\ typematic = 0
    /\ out = 0
    /\ presses = [k \in Keys |-> 0] /\ reported = [k \in Keys |-> 0]
    /\ down_read = {}

Next == Poll \/ Repeat \/ \E k \in Keys : Press(k) \/ Release(k)

Spec == Init /\ [][Next]_vars

(* _start calls terminal_run, and so keyboard_read, forever.  A byte the    *)
(* keyboard has sent reaches port 0x60 within the controller's transfer    *)
(* time, and from then on every read returns it, so a byte queued is       *)
(* eventually read fresh: weak fairness of PollFresh.  The user's presses,  *)
(* releases and the typematic repeat carry no fairness: the user may stop.  *)
FairSpec == Spec /\ WF_vars(PollFresh)

(* --- properties ---------------------------------------------------------- *)

TypeOK ==
    /\ shift_pressed \in {0, 1} /\ key_held \in {0, 1}
    /\ last_scancode \in {0} \cup Keys
    /\ port \in 0..255
    /\ held \subseteq Keys /\ typematic \in {0} \cup Keys
    /\ presses \in [Keys -> 0..MAX_PRESSES] /\ reported \in [Keys -> Nat]

(* Each press of a character key that keyboard_read has seen yields exactly *)
(* one character.  Typematic repeats and stale re-reads of port 0x60 yield  *)
(* none: the repeat suppression of keyboard.c:106 with its reset at         *)
(* keyboard.c:72 is what keeps a held key from typing itself many times     *)
(* and keeps a fresh press from being dropped.                              *)
OnePerPress == \A k \in CharKeys : reported[k] = presses[k]

\* Presses of k read by keyboard_read or still queued in the keyboard.
PressesSent(k) == presses[k] + Cardinality({i \in DOMAIN kbq : kbq[i] = [sc |-> k, fresh |-> TRUE]})

(* Every press of a character key is eventually typed: once the n-th press *)
(* of k is sent, terminal_run eventually gets the n-th character of k from  *)
(* keyboard_read.  This needs the fresh read to get the byte out of the    *)
(* controller's queue, and the repeat suppression of keyboard.c:106 not to *)
(* swallow a new press after a held key, a repeat or a stale re-read.      *)
EveryPressTyped ==
    \A k \in CharKeys : \A n \in 1..MAX_PRESSES :
        (PressesSent(k) >= n) ~> (reported[k] >= n)

(* keyboard_read reports shift exactly while a shift key is down, in the   *)
(* bytes it has read (keyboard.c:60-67).                                     *)
ShiftReflectsHeld == shift_pressed = 1 <=> down_read \cap Shifts # {}
=============================================================================
