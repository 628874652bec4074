------------------------------ MODULE MC_Commands ------------------------------
(***************************************************************************)
(* Commands with the real command names, as ASCII codes, and a few lines:  *)
(* exact names, names with an argument, and words that begin with a name.  *)
(***************************************************************************)
EXTENDS Commands

MCNames ==
    [c \in {"help", "clear", "exit", "test-formatting", "test-colors", "version",
            "color", "pwd", "ls", "cd", "mkdir", "touch", "rm"} |->
        CASE c = "help"            -> <<104, 101, 108, 112>>
          [] c = "clear"           -> <<99, 108, 101, 97, 114>>
          [] c = "exit"            -> <<101, 120, 105, 116>>
          [] c = "test-formatting" -> <<116, 101, 115, 116, 45, 102, 111, 114, 109, 97, 116, 116, 105, 110, 103>>
          [] c = "test-colors"     -> <<116, 101, 115, 116, 45, 99, 111, 108, 111, 114, 115>>
          [] c = "version"         -> <<118, 101, 114, 115, 105, 111, 110>>
          [] c = "color"           -> <<99, 111, 108, 111, 114>>
          [] c = "pwd"             -> <<112, 119, 100>>
          [] c = "ls"              -> <<108, 115>>
          [] c = "cd"              -> <<99, 100>>
          [] c = "mkdir"           -> <<109, 107, 100, 105, 114>>
          [] c = "touch"           -> <<116, 111, 117, 99, 104>>
          [] c = "rm"              -> <<114, 109>>]

\* " a", and the word "x" put after a name.
ArgA == <<32, 97>>
X == <<120>>

MCLines ==
    {MCNames["color"], MCNames["exit"], MCNames["pwd"],
     MCNames["help"] \o ArgA,
     MCNames["rm"] \o ArgA, MCNames["rm"] \o X \o ArgA,
     MCNames["ls"], MCNames["ls"] \o X,
     MCNames["cd"] \o ArgA, MCNames["mkdir"] \o X \o ArgA}
==============================================================================
