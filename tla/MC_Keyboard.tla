---------------------------- MODULE MC_Keyboard ----------------------------
(* Two character keys ('a' and Left arrow) and both shift keys. *)
EXTENDS Keyboard, TLC

KEY_A == 30
KEY_LEFT == 75

MCKeys == {KEY_A, KEY_LEFT, KEY_LSHIFT, KEY_RSHIFT}

\* The entries of the tables at keyboard.c:5 and :14 for the modelled codes.
MCTable == (0 :> 0) @@ (KEY_A :> 97) @@ (KEY_LSHIFT :> 0) @@ (KEY_RSHIFT :> 0)
MCTableShift == (0 :> 0) @@ (KEY_A :> 65) @@ (KEY_LSHIFT :> 0) @@ (KEY_RSHIFT :> 0)
=============================================================================
