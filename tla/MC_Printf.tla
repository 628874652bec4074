-------------------------------- MODULE MC_Printf --------------------------------
(***************************************************************************)
(* Printf at the 8-bit width of MC_Units.  Tokens: the literals 'a'  *)
(* and 'd' (a 'd' may follow a "%l"), every conversion vga_printf has, %%, *)
(* and the unknown conversions %l and %a.  Formats of up to four tokens    *)
(* put every pair of them side by side.  Arguments: 0, a positive, the     *)
(* most negative value; strings of zero and two characters.                *)
(***************************************************************************)
EXTENDS Printf, TLC

MCIntMinText == <<45, 49, 50, 56>>

Lit(c) == [chars |-> <<c>>, kind |-> "lit"]
Cv(s, k) == [chars |-> s, kind |-> k]

MCTokens ==
    { Lit(97), Lit(100),
      Cv(<<37, 100>>, "dec"), Cv(<<37, 108, 108, 100>>, "dec"),
      Cv(<<37, 120>>, "hex"), Cv(<<37, 98>>, "bin"),
      Cv(<<37, 115>>, "str"), Cv(<<37, 99>>, "chr"),
      Cv(<<37, 37>>, "pct"), Cv(<<37, 108>>, "unknown"), Cv(<<37, 97>>, "unknown") }

\* Two char* arguments: the empty string and "ab".
MCStrings == (1 :> <<>>) @@ (2 :> <<97, 98>>)

MCArgValues ==
    [k \in {"dec", "hex", "bin", "str", "chr"} |->
        CASE k = "dec" -> {0, 42, -128}
          [] k = "hex" -> {0, 255}
          [] k = "bin" -> {5}
          [] k = "str" -> DOMAIN MCStrings
          [] k = "chr" -> {97}]

MCNoTail == {<<>>}

\* Format endings that are not a whole conversion.
MCTrailing == {<<37>>, <<37, 108, 108>>}
==============================================================================
