------------------------------- MODULE MC_Shell -------------------------------
(***************************************************************************)
(* Shell instantiated for TLC, with the table bounds of MC_FsTable.       *)
(* Arguments: relative and absolute names one and two deep, a trailing  *)
(* '/', "/" itself and the empty argument.                                 *)
(***************************************************************************)
EXTENDS Shell, TLC

MCNames == {"a", "b"}
MCNameLen == [n \in MCNames |-> 2]
MCBytes == {1}
MCInputs == {<<>>}
MCReadSizes == {0}
MCListBufSize == MAX_FILES * (MAX_FILENAME + 2)

MCArgs ==
    {<<"">>, <<"", "">>, <<"a", "">>}
    \cup {<<x>> : x \in MCNames}
    \cup {<<"", x>> : x \in MCNames}
    \cup {<<"a", x>> : x \in MCNames}

\* Paths is a parameter of FsTable only; the shell builds its own.
MCPaths == {<<"", "">>}
==============================================================================
