------------------------------ MODULE MC_FsTable ------------------------------
(***************************************************************************)
(* FsTable instantiated for TLC: two names, paths up to three components  *)
(* deep, one-byte files (MAX_FILE_SIZE = 1 so that a two-byte write is    *)
(* truncated) and names of length 2 under MAX_FILENAME = 3.  The shell   *)
(* lists into a buffer of MAX_FILES * (MAX_FILENAME + 2) characters       *)
(* (terminal.c, list_buffer), kept here in the same proportion.           *)
(***************************************************************************)
EXTENDS FsTable, TLC

MCNames == {"a", "b"}
MCNameLen == [n \in MCNames |-> 2]
MCBytes == {1}
MCInputs == {<<>>, <<1>>, <<1, 1>>}
MCReadSizes == {0, 2}

\* "/", "/x", "/x/y" and "/a/b/x" for x, y in MCNames, plus one path with a
\* trailing '/' and one with a doubled '/' (empty segments).
MCPaths ==
    {<<"", "">>, <<"", "a", "">>, <<"", "a", "", "b">>}
    \cup {<<"", x>> : x \in MCNames}
    \cup {<<"", x, y>> : x, y \in MCNames}
    \cup {<<"", "a", "b", x>> : x \in MCNames}

MCListBufSize == MAX_FILES * (MAX_FILENAME + 2)
==============================================================================
